---- MODULE Spec2Model ----
(***************************************************************************)
(* BillingTick: the locale-aware extraction and classification engine.     *)
(*                                                                         *)
(* Texts are TLA+ strings.  A JavaScript string is a sequence of UTF-16    *)
(* code units; every code unit the program's tables and the modelled       *)
(* inputs use is written as one character.  ASCII stands for itself, and   *)
(* the non-ASCII code units are written with these stand-ins:              *)
(*                                                                         *)
(*    s-cedilla  !   S-CEDILLA  ?      u-umlaut  @   U-UMLAUT  *           *)
(*    o-umlaut   #   O-UMLAUT   =      c-cedilla %   C-CEDILLA ;           *)
(*    g-breve    ^   G-BREVE    :      dotless i |   I-WITH-DOT ]          *)
(*    a-umlaut   ~   combining dot above (U+0307) {                        *)
(*    euro sign  <   lira sign  >      pound sign [                        *)
(*                                                                         *)
(* so "TEDA?" is the company name TEDAS written with S-CEDILLA and         *)
(* "t@ketimi" is tuketimi written with u-umlaut.                           *)
(*                                                                         *)
(* Numbers: a classification score or confidence is an integer number of   *)
(* hundredths (0.4 is 40); a calibrated confidence is an integer number of *)
(* hundred-thousandths (0.98 is 98000), which is exact for every product   *)
(* of a score with the factors 0.8, 0.9 and 0.85; an amount of money is an *)
(* integer number of thousandths (89.99 is 89990).  The arithmetic is      *)
(* exact decimal arithmetic: the rounding of IEEE doubles is not modelled. *)
(***************************************************************************)
EXTENDS Integers, Sequences, FiniteSets, TLC

\* ------------------------------------------------------------------------
\* Optional values (undefined or a value)
\* ------------------------------------------------------------------------
undefined == << >>

Some(v) == << v >>

IsDefined(o) == o # undefined

Min(S) == CHOOSE x \in S : \A y \in S : x <= y

Max(S) == CHOOSE x \in S : \A y \in S : x >= y

\* the element of a set of one element.  Only({e : x \in {v}}) is e with v
\* for x, as a const declaration: v is evaluated once, wherever e uses x
Only(S) == CHOOSE x \in S : TRUE

\* ------------------------------------------------------------------------
\* Characters and strings
\* ------------------------------------------------------------------------
CharsOf(s) == {SubSeq(s, i, i) : i \in 1..Len(s)}

UpperAscii == "ABCDEFGHIJKLMNOPQRSTUVWXYZ"

LowerAscii == "abcdefghijklmnopqrstuvwxyz"

\* the non-ASCII capitals whose lower case is one code unit
UpperOther == "?*=;:"

LowerOther == "!@#%^"

DigitChars == CharsOf("0123456789")

\* \w of a RegExp without the u flag: [A-Za-z0-9_]
WordChars == CharsOf(UpperAscii) \cup CharsOf(LowerAscii) \cup DigitChars \cup {"_"}

\* \s, as far as the modelled texts have it
SpaceChars == {" "}

\* String.prototype.toLowerCase of one code unit; I-WITH-DOT becomes i
\* followed by the combining dot above
LowerMap ==
  [c \in CharsOf(UpperAscii) \cup CharsOf(UpperOther) \cup {"]"} |->
     IF c = "]" THEN "i{"
     ELSE IF c \in CharsOf(UpperAscii)
          THEN LET i == CHOOSE j \in 1..Len(UpperAscii) : SubSeq(UpperAscii, j, j) = c
               IN SubSeq(LowerAscii, i, i)
          ELSE LET i == CHOOSE j \in 1..Len(UpperOther) : SubSeq(UpperOther, j, j) = c
               IN SubSeq(LowerOther, i, i)]

\* the code units i..j of s, each mapped to lower case; the string is halved
\* so that the depth of the evaluation grows with the logarithm of its length
RECURSIVE LowerBetween(_, _, _)
LowerBetween(s, i, j) ==
  IF i > j THEN ""
  ELSE IF i = j
       THEN (IF SubSeq(s, i, i) \in DOMAIN LowerMap THEN LowerMap[SubSeq(s, i, i)]
             ELSE SubSeq(s, i, i))
       ELSE LowerBetween(s, i, (i + j) \div 2) \o LowerBetween(s, (i + j) \div 2 + 1, j)

\* String.prototype.toLowerCase
toLowerCase(str) == Only({ LowerBetween(s, 1, Len(s)) : s \in {str} })

RECURSIVE ReplaceNonWord(_, _, _)
\* replace(/[^\w\s]/g, ' ') of the code units i..j, by halves
ReplaceNonWord(s, i, j) ==
  IF i > j THEN ""
  ELSE IF i = j
       THEN (IF SubSeq(s, i, i) \in WordChars \/ SubSeq(s, i, i) \in SpaceChars
             THEN SubSeq(s, i, i) ELSE " ")
       ELSE ReplaceNonWord(s, i, (i + j) \div 2) \o ReplaceNonWord(s, (i + j) \div 2 + 1, j)

\* String.prototype.includes
Includes(text, keyword) ==
  Only({ \E i \in 0..(Len(t) - Len(k)) : SubSeq(t, i + 1, i + Len(k)) = k
         : t \in {text}, k \in {keyword} })

RECURSIVE CollapseSpaces(_, _, _)
\* replace(/\s+/g, ' ') of the code units i..j, by halves: a run of white
\* space leaves one space, at its first code unit
CollapseSpaces(s, i, j) ==
  IF i > j THEN ""
  ELSE IF i = j
       THEN (IF SubSeq(s, i, i) \in SpaceChars
             THEN IF i > 1 /\ SubSeq(s, i - 1, i - 1) \in SpaceChars THEN "" ELSE " "
             ELSE SubSeq(s, i, i))
       ELSE CollapseSpaces(s, i, (i + j) \div 2) \o CollapseSpaces(s, (i + j) \div 2 + 1, j)

\* String.prototype.trim
trim(str) ==
  Only({ IF keep = {} THEN "" ELSE SubSeq(s, Min(keep), Max(keep))
         : s \in {str}, keep \in {{i \in 1..Len(str) : SubSeq(str, i, i) \notin SpaceChars}} })

\* AIBillClassifier.normalizeText
normalizeText(text) ==
  Only({ Only({ Only({ trim(collapsed)
                       : collapsed \in {CollapseSpaces(replaced, 1, Len(replaced))} })
                : replaced \in {ReplaceNonWord(lowered, 1, Len(lowered))} })
         : lowered \in {toLowerCase(text)} })

\* ------------------------------------------------------------------------
\* Regular expressions of the classification rules.  A pattern is a
\* sequence of elements: an alternation of literals (a literal may hold
\* ".?" between its pieces), a gap ".{0,n}" (".?" is the gap with n = 1),
\* or "\d+".  A position is the number of code units before it.
\* ------------------------------------------------------------------------
Alt(alts) == [k |-> "alt", alts |-> alts, n |-> 0]

Gap(n) == [k |-> "gap", alts |-> << >>, n |-> n]

Digits == [k |-> "digits", alts |-> << >>, n |-> 0]

LitEnds(lit, text, S) ==
  {p + Len(lit) : p \in {q \in S : /\ q + Len(lit) <= Len(text)
                                   /\ SubSeq(text, q + 1, q + Len(lit)) = lit}}

\* "." matches any code unit but a line terminator
GapEnds(n, text, S) ==
  {q \in 0..Len(text) : \E p \in S : /\ p <= q
                                     /\ q <= p + n
                                     /\ \A i \in (p + 1)..q : SubSeq(text, i, i) # "\n"}

DigitEnds(text, S) ==
  {q \in 1..Len(text) : \E p \in S : /\ p < q
                                     /\ \A i \in (p + 1)..q : SubSeq(text, i, i) \in DigitChars}

RECURSIVE PieceEnds(_, _, _, _)
PieceEnds(pieces, i, text, S) ==
  IF i > Len(pieces) \/ S = {} THEN S
  ELSE PieceEnds(pieces, i + 1, text,
                 LitEnds(pieces[i], text, IF i = 1 THEN S ELSE GapEnds(1, text, S)))

ElemEnds(e, text, S) ==
  CASE e.k = "alt"    -> UNION {PieceEnds(e.alts[a], 1, text, S) : a \in DOMAIN e.alts}
    [] e.k = "gap"    -> GapEnds(e.n, text, S)
    [] e.k = "digits" -> DigitEnds(text, S)

RECURSIVE SeqEnds(_, _, _, _)
\* the positions where a match of seq[i..] that starts at a position of S can end
SeqEnds(seq, i, text, S) ==
  IF i > Len(seq) \/ S = {} THEN S
  ELSE SeqEnds(seq, i + 1, text, ElemEnds(seq[i], text, S))

IsGlobalAlways(pattern) == TRUE

\* whether the RegExp carries the g flag, which makes test() stateful
IsGlobal(pattern) == Includes(pattern.flags, "g")

\* RegExp.prototype.test on a pattern whose lastIndex is li: whether it matched
\* and the lastIndex it leaves.  Without the g flag the search starts at 0 and
\* lastIndex is not touched; with it the search starts at lastIndex, which is
\* set to the end of the match (the longest one at the leftmost start), or to 0
\* when nothing matches.
RegExpTest(pattern, text, li) ==
  IF IsGlobal(pattern)
  THEN LET starts == {s \in li..Len(text) : SeqEnds(pattern.seq, 1, text, {s}) # {}}
       IN IF starts = {}
          THEN [found |-> FALSE, lastIndex |-> 0]
          ELSE [found |-> TRUE,
                lastIndex |-> Max(SeqEnds(pattern.seq, 1, text, {Min(starts)}))]
  ELSE [found |-> SeqEnds(pattern.seq, 1, text, 0..Len(text)) # {}, lastIndex |-> li]

\* AIBillClassifier.CLASSIFICATION_RULES; a RegExp is its flags and the sequence
\* of its pieces, its source text above it.  Object.entries lists the keys in
\* the order written here, which is that of InvoiceType.
CLASSIFICATION_RULES ==
  [
    \* InvoiceType.ELECTRICITY
    electricity |->
      [ primary          |-> << "elektrik", "teda!", "elektrik t@ketimi", "kwh", "enerji", "g@%",
                              "electricity", "electric", "power", "energy", "kwh", "kilowatt",
                              "strom", "elektrizit~t", "energie", "kilowattstunde" >>,
        secondary        |-> << "fatura", "bill", "rechnung", "t@ketim", "consumption", "verbrauch",
                              "meter", "saya%", "z~hler", "watt", "volt" >>,
        companies        |-> << "TEDA?", "E.ON", "RWE", "VATTENFALL", "ENEL", "EDF", "ENDESA",
                              "PG&E", "EDISON", "ELECTRIC COMPANY", "POWER COMPANY" >>,
        patterns         |-> 
          << \* /(?:kw|kilowatt).?h/i
             [flags |-> "i", seq |-> << Alt(<< << "kw" >>, << "kilowatt" >> >>), Gap(1), Alt(<< << "h" >> >>) >>],
             \* /(?:elektrik|electric|strom).{0,20}(?:fatura|bill|rechnung)/i
             [flags |-> "i", seq |-> << Alt(<< << "elektrik" >>, << "electric" >>, << "strom" >> >>), Gap(20), Alt(<< << "fatura" >>, << "bill" >>, << "rechnung" >> >>) >>],
             \* /(?:enerji|energy|energie).{0,20}(?:t@ketim|consumption|verbrauch)/i
             [flags |-> "i", seq |-> << Alt(<< << "enerji" >>, << "energy" >>, << "energie" >> >>), Gap(20), Alt(<< << "t@ketim" >>, << "consumption" >>, << "verbrauch" >> >>) >>] >>,
        negativeKeywords |-> << "su", "water", "wasser", "gaz", "gas", "internet", "telefon" >> ],
    \* InvoiceType.WATER
    water |->
      [ primary          |-> << "su", "water", "wasser", "iski", "aqualogy", "waterworks",
                              "su faturas|", "water bill", "wasserrechnung" >>,
        secondary        |-> << "t@ketim", "consumption", "verbrauch", "meter", "saya%", "z~hler",
                              "municipal", "belediye", "stadtwerke" >>,
        companies        |-> << "]SK]", "SUSKI", "AQUALOGY", "WATERWORKS", "MUNICIPAL WATER",
                              "STADTWERKE", "WATER AUTHORITY", "WATER DISTRICT" >>,
        patterns         |-> 
          << \* /(?:su|water|wasser).{0,20}(?:fatura|bill|rechnung)/i
             [flags |-> "i", seq |-> << Alt(<< << "su" >>, << "water" >>, << "wasser" >> >>), Gap(20), Alt(<< << "fatura" >>, << "bill" >>, << "rechnung" >> >>) >>],
             \* /(?:m3|metre.?k@p|cubic.?meter)/i
             [flags |-> "i", seq |-> << Alt(<< << "m3" >>, << "metre", "k@p" >>, << "cubic", "meter" >> >>) >>],
             \* /water.?works/i
             [flags |-> "i", seq |-> << Alt(<< << "water", "works" >> >>) >>] >>,
        negativeKeywords |-> << "elektrik", "electric", "strom", "gaz", "gas", "telefon" >> ],
    \* InvoiceType.GAS
    gas |->
      [ primary          |-> << "do^algaz", "gaz", "gas", "erdgas", "natural gas", "gaz faturas|",
                              "gas bill", "gasrechnung" >>,
        secondary        |-> << "t@ketim", "consumption", "verbrauch", "meter", "saya%", "z~hler",
                              "m3", "metrek@p", "cubic meter" >>,
        companies        |-> << "]GDA?", "BOTA?", "SHELL", "BP", "TOTAL", "ENI", "GAZPROM",
                              "E.ON GAS", "STADTWERKE" >>,
        patterns         |-> 
          << \* /(?:do^al.?gaz|natural.?gas|erdgas)/i
             [flags |-> "i", seq |-> << Alt(<< << "do^al", "gaz" >>, << "natural", "gas" >>, << "erdgas" >> >>) >>],
             \* /(?:gaz|gas).{0,20}(?:fatura|bill|rechnung)/i
             [flags |-> "i", seq |-> << Alt(<< << "gaz" >>, << "gas" >> >>), Gap(20), Alt(<< << "fatura" >>, << "bill" >>, << "rechnung" >> >>) >>],
             \* /(?:m3|metre.?k@p|cubic.?meter).{0,20}(?:gaz|gas)/i
             [flags |-> "i", seq |-> << Alt(<< << "m3" >>, << "metre", "k@p" >>, << "cubic", "meter" >> >>), Gap(20), Alt(<< << "gaz" >>, << "gas" >> >>) >>] >>,
        negativeKeywords |-> << "elektrik", "electric", "su", "water", "telefon" >> ],
    \* InvoiceType.INTERNET
    internet |->
      [ primary          |-> << "internet", "broadband", "wifi", "fiber", "adsl", "vdsl",
                              "internet faturas|", "internet bill", "internetrechnung" >>,
        secondary        |-> << "mbps", "gb", "unlimited", "s|n|rs|z", "unbegrenzt", "paket",
                              "package", "paket", "modem", "router" >>,
        companies        |-> << "T*RK TELEKOM", "VODAFONE", "TURKCELL", "SUPERONLINE", "TELEKOM",
                              "COMCAST", "VERIZON", "AT&T", "ORANGE" >>,
        patterns         |-> 
          << \* /(?:internet|broadband|fiber|adsl).{0,20}(?:fatura|bill|rechnung)/i
             [flags |-> "i", seq |-> << Alt(<< << "internet" >>, << "broadband" >>, << "fiber" >>, << "adsl" >> >>), Gap(20), Alt(<< << "fatura" >>, << "bill" >>, << "rechnung" >> >>) >>],
             \* /(?:\d+).?(?:mbps|gb)/i
             [flags |-> "i", seq |-> << Digits, Gap(1), Alt(<< << "mbps" >>, << "gb" >> >>) >>],
             \* /wifi|wi-fi/i
             [flags |-> "i", seq |-> << Alt(<< << "wifi" >>, << "wi-fi" >> >>) >>] >>,
        negativeKeywords |-> << "elektrik", "su", "gaz", "kredi", "credit" >> ],
    \* InvoiceType.PHONE
    phone |->
      [ primary          |-> << "telefon", "phone", "mobile", "cellular", "gsm", "telefon faturas|",
                              "phone bill", "telefonrechnung" >>,
        secondary        |-> << "dakika", "minutes", "minuten", "sms", "mms", "data", "hat", "line",
                              "nummer", "arama", "calls", "anrufe" >>,
        companies        |-> << "TURKCELL", "VODAFONE", "T*RK TELEKOM", "TELEKOM", "VERIZON", "AT&T",
                              "T-MOBILE", "ORANGE", "O2" >>,
        patterns         |-> 
          << \* /(?:telefon|phone|mobile).{0,20}(?:fatura|bill|rechnung)/i
             [flags |-> "i", seq |-> << Alt(<< << "telefon" >>, << "phone" >>, << "mobile" >> >>), Gap(20), Alt(<< << "fatura" >>, << "bill" >>, << "rechnung" >> >>) >>],
             \* /(?:\d+).?(?:dakika|minutes|minuten)/i
             [flags |-> "i", seq |-> << Digits, Gap(1), Alt(<< << "dakika" >>, << "minutes" >>, << "minuten" >> >>) >>],
             \* /gsm|cellular/i
             [flags |-> "i", seq |-> << Alt(<< << "gsm" >>, << "cellular" >> >>) >>] >>,
        negativeKeywords |-> << "internet", "elektrik", "su", "gaz" >> ],
    \* InvoiceType.CABLE
    cable |->
      [ primary          |-> << "kablo", "cable", "tv", "satellite", "uydu", "kablo tv", "cable tv",
                              "kabelfernsehen" >>,
        secondary        |-> << "kanal", "channels", "kan~le", "broadcast", "yay|n", "digital", "hd",
                              "4k", "premium" >>,
        companies        |-> << "DIGITURK", "TIVIBU", "DSAT", "COMCAST", "SPECTRUM", "SKY", "CANAL+",
                              "ZIGGO" >>,
        patterns         |-> 
          << \* /(?:kablo|cable).?(?:tv|television)/i
             [flags |-> "i", seq |-> << Alt(<< << "kablo" >>, << "cable" >> >>), Gap(1), Alt(<< << "tv" >>, << "television" >> >>) >>],
             \* /(?:uydu|satellite)/i
             [flags |-> "i", seq |-> << Alt(<< << "uydu" >>, << "satellite" >> >>) >>],
             \* /(?:kanal|channels|kan~le).{0,20}(?:paket|package)/i
             [flags |-> "i", seq |-> << Alt(<< << "kanal" >>, << "channels" >>, << "kan~le" >> >>), Gap(20), Alt(<< << "paket" >>, << "package" >> >>) >>] >>,
        negativeKeywords |-> << "internet", "telefon", "elektrik" >> ],
    \* InvoiceType.INSURANCE
    insurance |->
      [ primary          |-> << "sigorta", "insurance", "versicherung", "poli%e", "policy",
                              "sigorta faturas|", "insurance bill", "versicherungsrechnung" >>,
        secondary        |-> << "prim", "premium", "pr~mie", "kasko", "dask", "hayat", "sa^l|k",
                              "health", "gesundheit", "auto", "car" >>,
        companies        |-> << "AXA", "ALLIANZ", "ZURICH", "MAPFRE", "AKSIGORTA", "ANADOLU SIGORTA",
                              "ALLIANZ T*RKIYE" >>,
        patterns         |-> 
          << \* /(?:sigorta|insurance|versicherung).{0,20}(?:fatura|bill|rechnung)/i
             [flags |-> "i", seq |-> << Alt(<< << "sigorta" >>, << "insurance" >>, << "versicherung" >> >>), Gap(20), Alt(<< << "fatura" >>, << "bill" >>, << "rechnung" >> >>) >>],
             \* /(?:prim|premium|pr~mie)/i
             [flags |-> "i", seq |-> << Alt(<< << "prim" >>, << "premium" >>, << "pr~mie" >> >>) >>],
             \* /(?:poli%e|policy)/i
             [flags |-> "i", seq |-> << Alt(<< << "poli%e" >>, << "policy" >> >>) >>] >>,
        negativeKeywords |-> << "elektrik", "su", "gaz", "telefon" >> ],
    \* InvoiceType.RENT
    rent |->
      [ primary          |-> << "kira", "rent", "miete", "rental", "lease", "kira faturas|",
                              "rent bill", "mietrechnung" >>,
        secondary        |-> << "apartment", "daire", "wohnung", "ev", "house", "haus", "ayl|k",
                              "monthly", "monatlich", "deposit", "kaution" >>,
        companies        |-> << "REAL ESTATE", "PROPERTY", "EMLAK", "IMMOBILIEN",
                              "PROPERTY MANAGEMENT", "ESTATE AGENCY" >>,
        patterns         |-> 
          << \* /(?:kira|rent|miete).{0,20}(?:fatura|bill|rechnung)/i
             [flags |-> "i", seq |-> << Alt(<< << "kira" >>, << "rent" >>, << "miete" >> >>), Gap(20), Alt(<< << "fatura" >>, << "bill" >>, << "rechnung" >> >>) >>],
             \* /(?:apartment|daire|wohnung)/i
             [flags |-> "i", seq |-> << Alt(<< << "apartment" >>, << "daire" >>, << "wohnung" >> >>) >>],
             \* /(?:monthly|ayl|k|monatlich).{0,20}(?:rent|kira|miete)/i
             [flags |-> "i", seq |-> << Alt(<< << "monthly" >>, << "ayl|k" >>, << "monatlich" >> >>), Gap(20), Alt(<< << "rent" >>, << "kira" >>, << "miete" >> >>) >>] >>,
        negativeKeywords |-> << "elektrik", "su", "telefon", "internet" >> ],
    \* InvoiceType.CREDIT_CARD
    credit_card |->
      [ primary          |-> << "kredi kart|", "credit card", "kreditkarte", "visa", "mastercard",
                              "kredi kart| faturas|", "credit card bill", "kreditkartenrechnung" >>,
        secondary        |-> << "limit", "minimum", "payment", "#deme", "zahlung", "balance",
                              "bakiye", "saldo", "interest", "faiz" >>,
        companies        |-> << "AKBANK", "GARANTI", "]? BANKASI", "YAPIKRED", "CHASE",
                              "WELLS FARGO", "DEUTSCHE BANK", "COMMERZBANK" >>,
        patterns         |-> 
          << \* /(?:kredi.?kart|credit.?card|kreditkarte)/i
             [flags |-> "i", seq |-> << Alt(<< << "kredi", "kart" >>, << "credit", "card" >>, << "kreditkarte" >> >>) >>],
             \* /(?:visa|mastercard|american.?express)/i
             [flags |-> "i", seq |-> << Alt(<< << "visa" >>, << "mastercard" >>, << "american", "express" >> >>) >>],
             \* /(?:minimum.?payment|minimum.?#deme)/i
             [flags |-> "i", seq |-> << Alt(<< << "minimum", "payment" >>, << "minimum", "#deme" >> >>) >>] >>,
        negativeKeywords |-> << "elektrik", "su", "gaz", "internet" >> ],
    \* InvoiceType.UNKNOWN
    unknown |->
      [ primary          |-> << >>,
        secondary        |-> << >>,
        companies        |-> << >>,
        patterns         |-> 
          << >>,
        negativeKeywords |-> << >> ] ]

\* ------------------------------------------------------------------------
\* Enumerations (src/types/Bill.ts)
\* ------------------------------------------------------------------------
\* enum InvoiceType, in declaration order
InvoiceType ==
  << "electricity", "water", "gas", "internet", "phone", "cable", "insurance",
     "rent", "credit_card", "unknown" >>

ELECTRICITY == InvoiceType[1]

GAS == InvoiceType[3]

UNKNOWN == InvoiceType[10]

\* enum Currency, in declaration order
Currency == << "USD", "EUR", "GBP", "TRY", "CAD", "AUD", "JPY", "CHF", "SEK", "NOK" >>

\* enum Country, in declaration order
Country ==
  << "US", "UK", "DE", "FR", "ES", "IT", "TR", "CA", "AU", "JP", "CH", "SE", "NO" >>

\* ------------------------------------------------------------------------
\* AIBillClassifier
\* ------------------------------------------------------------------------
\* the score 1.0, in hundredths
One == 100

\* keyword.toLowerCase() for every string of the rule tables, computed once
LoweredRuleString ==
  LET strings == UNION {UNION {{r.primary[i] : i \in DOMAIN r.primary},
                               {r.secondary[i] : i \in DOMAIN r.secondary},
                               {r.companies[i] : i \in DOMAIN r.companies},
                               {r.negativeKeywords[i] : i \in DOMAIN r.negativeKeywords}} :
                          r \in {CLASSIFICATION_RULES[t] : t \in DOMAIN CLASSIFICATION_RULES}}
  IN [k \in strings |-> toLowerCase(k)]

\* array.filter(keyword => text.includes(keyword.toLowerCase())), as indices
FilterIncluded(text, keywords) ==
  {i \in DOMAIN keywords : Includes(text, LoweredRuleString[keywords[i]])}

getCountryCompanies(country) ==
  CASE country = "TR" -> << "TEDA?", "]GDA?", "]SK]", "TURKCELL", "VODAFONE", "T*RK TELEKOM" >>
    [] country = "DE" -> << "E.ON", "RWE", "VATTENFALL", "TELEKOM", "STADTWERKE" >>
    [] country = "US" -> << "VERIZON", "AT&T", "COMCAST", "PG&E", "EDISON" >>
    [] country = "UK" -> << "BT", "SKY", "BRITISH GAS", "EDF ENERGY" >>
    [] OTHER -> << >>

SomeCompanyAlways(rules, list) == TRUE

\* rules.companies.some(company => list.includes(company))
SomeCompanyIn(rules, list) ==
  \E i \in DOMAIN rules.companies : \E j \in DOMAIN list : rules.companies[i] = list[j]

\* [InvoiceType.ELECTRICITY, InvoiceType.GAS].includes(rules): the list holds
\* two strings and rules is the rule object of a type, so the strict equality
\* of includes() is false for both elements
TypesIncludeRules(types, rules) == \E i \in DOMAIN types : FALSE

\* context fields: currency and country are "" when absent, amountHint (in
\* thousandths) is 0 when absent, which is how their truthiness tests read them
calculateContextBoost(rules, context) ==
  LET currencyBoost ==
        IF /\ context.currency # ""
           /\ context.currency = "TRY"
           /\ SomeCompanyIn(rules, << "TEDA?", "]GDA?", "]SK]", "TURKCELL", "VODAFONE" >>)
        THEN 10 ELSE 0
      amountBoost ==
        IF /\ context.amountHint # 0
           /\ context.amountHint > 100 * 1000
           /\ TypesIncludeRules(<< ELECTRICITY, GAS >>, rules)
        THEN 5 ELSE 0
      countryBoost ==
        IF /\ context.country # ""
           /\ SomeCompanyIn(rules, getCountryCompanies(context.country))
        THEN 10 ELSE 0
  IN currencyBoost + amountBoost + countryBoost

TypeScoreUnclamped(rules, primaryMatches, secondaryMatches, tests, companies, negativeMatches, boost) ==
  [ score |-> primaryMatches * 40 + secondaryMatches * 20
              + Cardinality({i \in DOMAIN tests : tests[i].found}) * 30
              + (IF companies # {} THEN 50 ELSE 0) - negativeMatches * 30 + boost,
    companyMatch |-> IF companies = {} THEN undefined
                     ELSE Some([name |-> rules.companies[Min(companies)], confidence |-> 90]),
    lastIndex |-> [i \in DOMAIN tests |-> tests[i].lastIndex] ]

\* the result of calculateTypeScore from what its filters found
TypeScore(rules, primaryMatches, secondaryMatches, tests, companies, negativeMatches, boost) ==
  LET patternMatches == Cardinality({i \in DOMAIN tests : tests[i].found})
      score == primaryMatches * 40 + secondaryMatches * 20 + patternMatches * 30
               + (IF companies # {} THEN 50 ELSE 0) - negativeMatches * 30 + boost
  IN [ score |-> IF score > One THEN One ELSE IF score < 0 THEN 0 ELSE score,
       companyMatch |-> IF companies = {} THEN undefined
                        ELSE Some([name |-> rules.companies[Min(companies)], confidence |-> 90]),
       lastIndex |-> [i \in DOMAIN tests |-> tests[i].lastIndex] ]

\* calculateTypeScore with the lastIndex of each of the type's patterns in li:
\* the score, the company match and the lastIndex values the pattern tests leave
calculateTypeScore(text, rules, context, li) ==
  TypeScore(rules,
            Cardinality(FilterIncluded(text, rules.primary)),
            Cardinality(FilterIncluded(text, rules.secondary)),
            [i \in DOMAIN rules.patterns |-> RegExpTest(rules.patterns[i], text, li[i])],
            FilterIncluded(text, rules.companies),
            Cardinality(FilterIncluded(text, rules.negativeKeywords)),
            IF IsDefined(context) THEN calculateContextBoost(rules, context[1]) ELSE 0)

RECURSIVE JoinFrom(_, _, _)
\* array.join(sep) of list[i..]
JoinFrom(list, i, sep) ==
  IF i > Len(list) THEN ""
  ELSE list[i] \o (IF i < Len(list) THEN sep ELSE "") \o JoinFrom(list, i + 1, sep)

\* array.filter as the sequence of the elements whose index is in keep
RECURSIVE Select(_, _, _)
Select(list, keep, i) ==
  IF i > Len(list) THEN << >>
  ELSE (IF i \in keep THEN << list[i] >> ELSE << >>) \o Select(list, keep, i + 1)

generateReasoning(type, confidence, text, context) ==
  LET rules == CLASSIFICATION_RULES[type]
      foundKeywords  == Select(rules.primary, FilterIncluded(text, rules.primary), 1)
      foundCompanies == Select(rules.companies, FilterIncluded(text, rules.companies), 1)
      first3 == SubSeq(foundKeywords, 1, IF Len(foundKeywords) < 3 THEN Len(foundKeywords) ELSE 3)
  IN "Classified as " \o type
     \o (IF Len(foundKeywords) > 0
         THEN " due to keywords: " \o JoinFrom(first3, 1, ", ") ELSE "")
     \o (IF Len(foundCompanies) > 0 THEN " and company: " \o foundCompanies[1] ELSE "")
     \o (IF IsDefined(context) /\ context[1].currency # ""
         THEN " (Currency: " \o context[1].currency \o ")" ELSE "")
     \o ". Confidence: " \o ToString(confidence) \o "%"

RECURSIVE bestCompanyLatest(_, _, _)
\* a loop in which the company match of a later type replaces an earlier one
bestCompanyLatest(typeScores, i, bestCompany) ==
  IF i > Len(InvoiceType) THEN bestCompany
  ELSE bestCompanyLatest(typeScores, i + 1,
         IF IsDefined(typeScores[InvoiceType[i]].companyMatch)
         THEN typeScores[InvoiceType[i]].companyMatch ELSE bestCompany)

RECURSIVE bestCompanyFrom(_, _, _)
\* the loop's bestCompany after the types i.. , given its value before them
bestCompanyFrom(typeScores, i, bestCompany) ==
  IF i > Len(InvoiceType) THEN bestCompany
  ELSE LET m == typeScores[InvoiceType[i]].companyMatch
       IN bestCompanyFrom(typeScores, i + 1,
            IF IsDefined(m) /\ (~IsDefined(bestCompany)
                                \/ m[1].confidence > bestCompany[1].confidence)
            THEN m ELSE bestCompany)

PickEarlier(scores, a, b) == IF scores[a] >= scores[b] THEN a ELSE b

\* the reduce callback: (a, b) => scores[a] > scores[b] ? a : b
Pick(scores, a, b) == IF scores[a] > scores[b] THEN a ELSE b

RECURSIVE reduceFrom(_, _, _)
\* Object.entries(scores).reduce(callback): the accumulator after the entries i..
reduceFrom(scores, i, acc) ==
  IF i > Len(InvoiceType) THEN acc
  ELSE reduceFrom(scores, i + 1, Pick(scores, acc, InvoiceType[i]))

\* classifyBill with the patterns' lastIndex values in li: the scores it
\* computed, the result it returns and the lastIndex values it leaves
classifyBill(text, context, li) ==
  LET normalizedText == normalizeText(text)
      typeScores == [t \in DOMAIN CLASSIFICATION_RULES |->
                       calculateTypeScore(normalizedText, CLASSIFICATION_RULES[t], context, li[t])]
      scores == [t \in DOMAIN typeScores |-> typeScores[t].score]
      bestCompany == bestCompanyFrom(typeScores, 1, undefined)
      bestType == reduceFrom(scores, 2, InvoiceType[1])
      confidence == scores[bestType]
  IN [ scores |-> scores,
       result |-> [ type |-> bestType,
                    confidence |-> confidence,
                    reasoning |-> generateReasoning(bestType, confidence, normalizedText, context),
                    companyName |-> IF IsDefined(bestCompany) THEN Some(bestCompany[1].name)
                                    ELSE undefined,
                    companyConfidence |-> IF IsDefined(bestCompany)
                                          THEN Some(bestCompany[1].confidence) ELSE undefined ],
       lastIndex |-> [t \in DOMAIN typeScores |-> typeScores[t].lastIndex] ]

\* every classification pattern's lastIndex when the class is loaded
ZeroIndex ==
  [t \in DOMAIN CLASSIFICATION_RULES |-> [i \in DOMAIN CLASSIFICATION_RULES[t].patterns |-> 0]]

MinOnly(calibrated) == IF calibrated > 98000 THEN 98000 ELSE calibrated

\* Math.min(Math.max(calibrated, 0.1), 0.98), in hundred-thousandths
ClampCalibrated(calibrated) ==
  LET floored == IF calibrated > 10000 THEN calibrated ELSE 10000
  IN IF floored < 98000 THEN floored ELSE 98000

HalveAmount(calibrated, hasAmount) ==
  IF ~hasAmount THEN (calibrated * 50) \div 100 ELSE calibrated

\* if (!hasAmount) calibrated *= 0.8
DiscountAmount(calibrated, hasAmount) ==
  IF ~hasAmount THEN (calibrated * 80) \div 100 ELSE calibrated

KeepDate(calibrated, hasDate) == calibrated

\* if (!hasDate) calibrated *= 0.9
DiscountDate(calibrated, hasDate) ==
  IF ~hasDate THEN (calibrated * 90) \div 100 ELSE calibrated

RaiseCompany(calibrated, hasCompany) ==
  IF ~hasCompany THEN (calibrated * 115) \div 100 ELSE calibrated

\* if (!hasCompany) calibrated *= 0.85
DiscountCompany(calibrated, hasCompany) ==
  IF ~hasCompany THEN (calibrated * 85) \div 100 ELSE calibrated

\* calibrateConfidence: confidence in hundredths, the result in
\* hundred-thousandths, so that every product is a whole number
calibrateConfidence(confidence, hasAmount, hasDate, hasCompany) ==
  ClampCalibrated(
    DiscountCompany(DiscountDate(DiscountAmount(confidence * 1000, hasAmount), hasDate),
                    hasCompany))

\* ------------------------------------------------------------------------
\* Global matching: String.prototype.match / matchAll with a g pattern.
\* A scanned pattern is a record with a kind; MatchEnd gives the end of its
\* match at one start position (-1: none), MatchAllFrom the matches from a
\* position on, leftmost first and not overlapping.
\* ------------------------------------------------------------------------
\* [A-Z] and the capitals the company patterns list beside it
CompanyUpper == CharsOf(UpperAscii) \cup CharsOf(";:]=?*")

\* [a-z] and the small letters the company patterns list beside it
CompanyLower == CharsOf(LowerAscii) \cup CharsOf("%^|#!@")

At(text, p) == IF p < Len(text) THEN SubSeq(text, p + 1, p + 1) ELSE ""

\* the end of the longest run of code units of class from position from on
RunEnd(text, from, class) ==
  Only({ IF p >= Len(text) THEN p
         ELSE Min({q \in p..Len(text) : q = Len(text) \/ At(text, q) \notin c})
         : p \in {from}, c \in {class} })

StartsWith(text, p, lit) ==
  p + Len(lit) <= Len(text) /\ SubSeq(text, p + 1, p + Len(lit)) = lit

RECURSIVE CapsExtend(_, _)
\* (?:\s+[A-Z...]{2,})* from position e on
CapsExtend(text, e) ==
  Only({ Only({ IF w > e /\ u >= w + 2 THEN CapsExtend(text, u) ELSE e
                : u \in {RunEnd(text, w, CompanyUpper)} })
         : w \in {RunEnd(text, e, SpaceChars)} })

\* /([A-Z...]{2,}(?:\s+[A-Z...]{2,})*)/ at position s
CapsEnd(text, s) ==
  Only({ IF u >= s + 2 THEN CapsExtend(text, u) ELSE -1
         : u \in {RunEnd(text, s, CompanyUpper)} })

CompanySuffixes == << "Ltd", "Inc", "Corp", "Company", "?irketi", "GmbH", "AG" >>

\* /([A-Z...][a-z...]+ (?:Ltd|Inc|Corp|Company|...|GmbH|AG))/ at position s
CorpEnd(text, s) ==
  IF At(text, s) \notin CompanyUpper THEN -1
  ELSE Only({ Only({ IF l >= s + 2 /\ At(text, l) = " " /\ fits # {}
                     THEN l + 1 + Len(CompanySuffixes[Min(fits)])
                     ELSE -1
                     : fits \in {{i \in DOMAIN CompanySuffixes :
                                    StartsWith(text, l + 1, CompanySuffixes[i])}} })
              : l \in {RunEnd(text, s + 1, CompanyLower)} })

NoMatch == [end |-> -1, groups |-> << >>]

Slice(text, from, to) == SubSeq(text, from + 1, to)

RECURSIVE GroupCount(_, _, _)
\* how many times (?:[grp]\d{3}) matches in a row from position p on
GroupCount(text, p, grp) ==
  IF At(text, p) \in grp /\ RunEnd(text, p + 1, DigitChars) >= p + 4
  THEN 1 + GroupCount(text, p + 4, grp)
  ELSE 0

RECURSIVE NumEndsG(_, _, _, _)
\* the ends of (?:[grp]\d{3})*(?:[dec]\d{2})? from position p with at most g
\* groups, in the order the greedy quantifiers try them
NumEndsG(text, p, g, dec) ==
  IF g < 0 THEN << >>
  ELSE Only({ (IF At(text, q) \in dec /\ RunEnd(text, q + 1, DigitChars) >= q + 3
               THEN << q + 3 >> ELSE << >>)
              \o << q >> \o NumEndsG(text, p, g - 1, dec)
              : q \in {p + 4 * g} })

RECURSIVE NumEndsD(_, _, _, _, _)
\* the ends of \d{1,3}(?:[grp]\d{3})*(?:[dec]\d{2})? from position s with at
\* most d leading digits, in the order the greedy quantifiers try them
NumEndsD(text, s, d, grp, dec) ==
  IF d = 0 THEN << >>
  ELSE Only({ NumEndsG(text, s + d, g, dec) : g \in {GroupCount(text, s + d, grp)} })
       \o NumEndsD(text, s, d - 1, grp, dec)

NumEnds(text, s, grp, dec) ==
  Only({ NumEndsD(text, s, d, g, c)
         : d \in {Min({3, RunEnd(text, s, DigitChars) - s})},
           g \in {CharsOf(grp)}, c \in {CharsOf(dec)} })

\* one alternative of an amount pattern at position s: prefix\s*(number), or
\* (number)\s*suffix
AmountAltAt(alt, text, s) ==
  IF alt.prefix # ""
  THEN IF ~StartsWith(text, s, alt.prefix) THEN NoMatch
       ELSE Only({ Only({ IF ends # << >>
                          THEN [end |-> ends[1], groups |-> << Slice(text, w, ends[1]) >>]
                          ELSE NoMatch
                          : ends \in {NumEnds(text, w, alt.grp, alt.dec)} })
                   : w \in {RunEnd(text, s + Len(alt.prefix), SpaceChars)} })
  ELSE Only({ Only({ IF ok # {}
                     THEN [end |-> RunEnd(text, ends[Min(ok)], SpaceChars) + Len(alt.suffix),
                           groups |-> << Slice(text, s, ends[Min(ok)]) >>]
                     ELSE NoMatch
                     : ok \in {{i \in DOMAIN ends :
                                  StartsWith(text, RunEnd(text, ends[i], SpaceChars),
                                             alt.suffix)}} })
              : ends \in {NumEnds(text, s, alt.grp, alt.dec)} })

\* an amount pattern at position s: its first alternative that matches
AmountAt(p, text, s) ==
  Only({ IF \A i \in DOMAIN found : found[i].end < 0 THEN NoMatch
         ELSE found[Min({i \in DOMAIN found : found[i].end >= 0})]
         : found \in {[i \in DOMAIN p.alts |-> AmountAltAt(p.alts[i], text, s)]} })

\* \d{1,2} followed by sep at position s: the number of digits taken, 0 if none
DayDigits(text, s, sep) ==
  Only({ IF run >= s + 2 /\ At(text, s + 2) = sep THEN 2
         ELSE IF run >= s + 1 /\ At(text, s + 1) = sep THEN 1
         ELSE 0
         : run \in {RunEnd(text, s, DigitChars)} })

\* /(\d{1,2})sep(\d{1,2})sep(\d{4})/ at position s
DateAt(p, text, s) ==
  Only({ IF a = 0 THEN NoMatch
         ELSE Only({ IF b > 0 /\ RunEnd(text, s + a + b + 2, DigitChars) >= s + a + b + 6
                     THEN [end |-> s + a + b + 6,
                           groups |-> << Slice(text, s, s + a),
                                         Slice(text, s + a + 1, s + a + 1 + b),
                                         Slice(text, s + a + b + 2, s + a + b + 6) >>]
                     ELSE NoMatch
                     : b \in {DayDigits(text, s + a + 1, p.sep)} })
         : a \in {DayDigits(text, s, p.sep)} })

MatchAt(p, text, s) ==
  CASE p.kind = "caps"   -> [end |-> CapsEnd(text, s), groups |-> << >>]
    [] p.kind = "corp"   -> [end |-> CorpEnd(text, s), groups |-> << >>]
    [] p.kind = "amount" -> AmountAt(p, text, s)
    [] p.kind = "date"   -> DateAt(p, text, s)

RECURSIVE MatchAllFrom(_, _, _)
\* the matches of the g pattern p from position pos on, given what it matches
\* at each position (found): for each its index, its text (match[0]) and its
\* capture groups
MatchAllFrom(found, text, pos) ==
  Only({ IF starts = {} THEN << >>
         ELSE Only({ << [index |-> s, match |-> Slice(text, s, found[s].end),
                         groups |-> found[s].groups] >>
                     \o MatchAllFrom(found, text, found[s].end)
                     : s \in {Min(starts)} })
         : starts \in {{s \in DOMAIN found : s >= pos /\ found[s].end >= 0}} })

\* Array.from(text.matchAll(p)), and text.match(p) but for null
MatchAll(p, text) ==
  Only({ MatchAllFrom(found, text, 0)
         : found \in {[s \in 0..(Len(text) - 1) |-> MatchAt(p, text, s)]} })

\* companyPatterns of extractCompanyName, in order
companyPatterns == << [kind |-> "corp"], [kind |-> "caps"] >>

RECURSIVE LongestFrom(_, _, _)
\* matches.reduce((a, b) => a.length > b.length ? a : b)
LongestFrom(matches, i, acc) ==
  IF i > Len(matches) THEN acc
  ELSE Only({ LongestFrom(matches, i + 1, next)
              : next \in {IF Len(acc) > Len(matches[i].match) THEN acc
                          ELSE matches[i].match} })

\* AIBillClassifier.extractCompanyName; type is "" when it is not passed
extractCompanyName(text, type) ==
  Only({ IF known # {}
         THEN Some([name |-> companies[Min(known)], confidence |-> 95])
         ELSE Only({ IF \A i \in DOMAIN found : found[i] = << >> THEN undefined
                     ELSE Only({ Some([name |-> trim(LongestFrom(matches, 2,
                                                                 matches[1].match)),
                                       confidence |-> 70])
                                 : matches \in {found[Min({i \in DOMAIN found :
                                                             found[i] # << >>})]} })
                     : found \in {[i \in DOMAIN companyPatterns |->
                                     MatchAll(companyPatterns[i], text)]} })
         : companies \in {IF type # "" THEN CLASSIFICATION_RULES[type].companies
                          ELSE << >>},
           known \in {FilterIncluded(normalizeText(text),
                                     IF type # "" THEN CLASSIFICATION_RULES[type].companies
                                     ELSE << >>)} })

\* ------------------------------------------------------------------------
\* LocalizedParser.  An amount is a number of thousandths (89.99 is 89990):
\* the strings parseFloat reads here have at most three decimals.
\* ------------------------------------------------------------------------
\* a number pattern \d{1,3}(?:[grp]\d{3})*(?:[dec]\d{2})? after a prefix
Prefixed(prefix, grp, dec) ==
  [kind |-> "amount", alts |-> << [prefix |-> prefix, suffix |-> "", grp |-> grp, dec |-> dec] >>]

\* the same number pattern before a suffix
Suffixed(suffix, grp, dec) ==
  [kind |-> "amount", alts |-> << [prefix |-> "", suffix |-> suffix, grp |-> grp, dec |-> dec] >>]

\* an alternation p1|p2|... of such patterns
OneOf(ps) == [kind |-> "amount", alts |-> [i \in DOMAIN ps |-> ps[i].alts[1]]]

\* the table with the format labels of the de-DE patterns exchanged
DATE_PATTERNS_MISLABELLED(localeKey) ==
  CASE localeKey = "en-US" ->
         << [kind |-> "date", sep |-> "/", order |-> << 1, 0, 2 >>, format |-> "MM/DD/YYYY"],
            [kind |-> "date", sep |-> "-", order |-> << 1, 0, 2 >>, format |-> "MM-DD-YYYY"] >>
    [] localeKey \in {"de-DE", "tr-TR"} ->
         << [kind |-> "date", sep |-> ".", order |-> << 0, 1, 2 >>, format |-> "DD/MM/YYYY"],
            [kind |-> "date", sep |-> "/", order |-> << 0, 1, 2 >>, format |-> "DD.MM.YYYY"] >>
    [] OTHER -> undefined

DATE_PATTERNS_BY_LOCALE(localeKey) ==
  CASE localeKey = "en-US" ->
         << [kind |-> "date", sep |-> "/", order |-> << 1, 0, 2 >>, format |-> "MM/DD/YYYY"],
            [kind |-> "date", sep |-> "-", order |-> << 1, 0, 2 >>, format |-> "MM-DD-YYYY"] >>
    [] localeKey \in {"de-DE", "tr-TR"} ->
         << [kind |-> "date", sep |-> ".", order |-> << 0, 1, 2 >>, format |-> "DD.MM.YYYY"],
            [kind |-> "date", sep |-> "/", order |-> << 0, 1, 2 >>, format |-> "DD/MM/YYYY"] >>
    [] OTHER -> undefined

\* the locale's pattern of a currency, undefined when it has none
CURRENCY_PATTERNS_BY_LOCALE(localeKey, currency) ==
  CASE localeKey = "en-US" /\ currency = "USD" -> Some(Prefixed("$", ",", "."))
    [] localeKey = "en-US" /\ currency = "EUR" -> Some(Prefixed("EUR", ",", "."))
    [] localeKey = "en-US" /\ currency = "GBP" -> Some(Prefixed("GBP", ",", "."))
    [] localeKey = "de-DE" /\ currency = "EUR" ->
         Some(OneOf(<< Prefixed("<", ".,", ","), Suffixed("<", ".,", ",") >>))
    [] localeKey = "de-DE" /\ currency = "USD" -> Some(Prefixed("USD", ".,", ","))
    [] localeKey = "de-DE" /\ currency = "CHF" -> Some(Prefixed("CHF", ".,", ","))
    [] localeKey = "tr-TR" /\ currency = "TRY" ->
         Some(OneOf(<< Prefixed(">", ".,", ","), Suffixed(">", ".,", ","),
                       Suffixed("TL", ".,", ",") >>))
    [] localeKey = "tr-TR" /\ currency = "USD" -> Some(Prefixed("$", ",", "."))
    [] localeKey = "tr-TR" /\ currency = "EUR" -> Some(Prefixed("<", ".,", ","))
    [] OTHER -> undefined

LocaleKeys == {"en-US", "de-DE", "tr-TR"}

DUE_KEYWORDS_BY_LANGUAGE(languageCode) ==
  CASE languageCode = "en" ->
         << "due", "payment due", "pay by", "deadline", "due date", "payable by" >>
    [] languageCode = "de" ->
         << "f~llig", "zahlbar bis", "zahlung bis", "f~lligkeit", "zahlungstermin" >>
    [] languageCode = "tr" ->
         << "son #deme", "#deme tarihi", "vade", "son tarih", "#deme vadesi",
            "son #deme tarihi" >>
    [] OTHER -> undefined

PRIMARY_CURRENCY_BY_COUNTRY(countryCode) ==
  CASE countryCode = "US" -> "USD"
    [] countryCode = "GB" -> "GBP"
    [] countryCode = "TR" -> "TRY"
    [] countryCode \in {"DE", "FR", "ES", "IT"} -> "EUR"
    [] countryCode = "CA" -> "CAD"
    [] countryCode = "AU" -> "AUD"
    [] countryCode = "JP" -> "JPY"
    [] countryCode = "CH" -> "CHF"
    [] countryCode = "SE" -> "SEK"
    [] countryCode = "NO" -> "NOK"
    [] OTHER -> ""

\* the lookup without its default
DueKeywordsOrNone(languageCode) == DUE_KEYWORDS_BY_LANGUAGE(languageCode)

getDueKeywords(languageCode) ==
  IF IsDefined(DUE_KEYWORDS_BY_LANGUAGE(languageCode))
  THEN DUE_KEYWORDS_BY_LANGUAGE(languageCode)
  ELSE DUE_KEYWORDS_BY_LANGUAGE("en")

getPrimaryCurrency(countryCode) ==
  IF PRIMARY_CURRENCY_BY_COUNTRY(countryCode) # ""
  THEN PRIMARY_CURRENCY_BY_COUNTRY(countryCode)
  ELSE "USD"

\* the result of parseFloat or parseInt on a string that starts no number
NaN == -1

RECURSIVE DigitsValue(_, _)
\* the number the digit string s[1..n] writes
DigitsValue(s, n) ==
  IF n = 0 THEN 0
  ELSE 10 * DigitsValue(s, n - 1)
       + (CHOOSE d \in 0..9 : SubSeq("0123456789", d + 1, d + 1) = SubSeq(s, n, n))

\* parseInt of a string
parseInt(str) ==
  Only({ IF n = 0 THEN NaN ELSE DigitsValue(s, n)
         : s \in {str}, n \in {RunEnd(str, 0, DigitChars)} })

\* parseFloat of a string of digits, periods and commas, in thousandths: the
\* longest prefix that is digits, or digits, a period and digits
parseFloat(str) ==
  Only({ Only({ Only({ IF n = 0 /\ f = 0 THEN NaN
                       ELSE DigitsValue(s, n) * 1000
                            + DigitsValue(frac, Len(frac))
                              * (CASE Len(frac) = 0 -> 0 [] Len(frac) = 1 -> 100
                                   [] Len(frac) = 2 -> 10 [] OTHER -> 1)
                       : frac \in {Slice(s, n + 1, n + 1 + Min({3, f}))} })
                : f \in {IF At(s, n) = "." THEN RunEnd(s, n + 1, DigitChars) - (n + 1)
                         ELSE 0} })
         : s \in {str}, n \in {RunEnd(str, 0, DigitChars)} })

RECURSIVE RemoveFrom(_, _, _)
\* s from position i on (counted from 1) without the code units of drop
RemoveFrom(s, i, drop) ==
  IF i > Len(s) THEN ""
  ELSE (IF SubSeq(s, i, i) \in drop THEN "" ELSE SubSeq(s, i, i))
       \o RemoveFrom(s, i + 1, drop)

\* str.replace(/[drop]/g, '')
Remove(str, drop) == Only({ RemoveFrom(s, 1, d) : s \in {str}, d \in {drop} })

\* replace(',', '.'): the first comma only
ReplaceFirstComma(str) ==
  Only({ Only({ IF at = {} THEN s
                ELSE SubSeq(s, 1, Min(at) - 1) \o "." \o SubSeq(s, Min(at) + 1, Len(s))
                : at \in {{i \in 1..Len(s) : SubSeq(s, i, i) = ","}} })
         : s \in {str} })

\* a test for a decimal separator that never finds one
NeverEndsWithTwoDigits(s, sep) == FALSE

\* /[sep]\d{2}$/.test(s)
EndsWithTwoDigitsAfter(s, sep) ==
  /\ Len(s) >= 3
  /\ SubSeq(s, Len(s) - 2, Len(s) - 2) = sep
  /\ SubSeq(s, Len(s) - 1, Len(s) - 1) \in DigitChars
  /\ SubSeq(s, Len(s), Len(s)) \in DigitChars

\* amountStr.replace(/[^\d.,]/g, '')
CleanAmount(amountStr) ==
  Remove(amountStr,
         {SubSeq(amountStr, i, i) : i \in 1..Len(amountStr)} \ (DigitChars \cup {".", ","}))

parseNumericAmount(amountStr, locale) ==
  Only({ LET european == parseFloat(ReplaceFirstComma(Remove(cleanAmount, {"."})))
             american == parseFloat(Remove(cleanAmount, {","}))
         IN IF locale = "auto"
            THEN IF EndsWithTwoDigitsAfter(cleanAmount, ",") THEN european
                 ELSE IF EndsWithTwoDigitsAfter(cleanAmount, ".") THEN american
                 ELSE american
            ELSE IF Includes(locale, "DE") \/ Includes(locale, "TR") THEN european
                 ELSE american
         : cleanAmount \in {CleanAmount(amountStr)} })

RECURSIVE MaxAmountFrom(_, _, _, _)
\* the loop over matches: maxAmount and bestMatch after the matches i.. ,
\* given their values before them
MaxAmountFrom(matches, i, locale, best) ==
  IF i > Len(matches) THEN best
  ELSE Only({ Only({ MaxAmountFrom(matches, i + 1, locale, next)
                     : next \in {IF numericAmount # NaN /\ numericAmount > best.maxAmount
                                 THEN [maxAmount |-> numericAmount, bestMatch |-> amountStr]
                                 ELSE best} })
              : amountStr \in {matches[i].groups[1]},
                numericAmount \in {parseNumericAmount(matches[i].groups[1], locale)} })

\* what one pattern would yield without the test maxAmount > 0: the largest
\* of its matches, whatever its value
AmountOfAnyMatch(text, currency, pattern, locale) ==
  Only({ IF matches = << >> THEN undefined
         ELSE Only({ Some([value |-> best.maxAmount, currency |-> currency,
                           raw |-> best.bestMatch])
                     : best \in {MaxAmountFrom(matches, 1, locale,
                                               [maxAmount |-> 0, bestMatch |-> ""])} })
         : matches \in {MatchAll(pattern, text)} })

\* what one pattern yields for a currency: an Amount, or undefined when it
\* has no match with a value above 0
AmountOfPattern(text, currency, pattern, locale) ==
  Only({ Only({ IF best.maxAmount > 0
                THEN Some([value |-> best.maxAmount, currency |-> currency,
                           raw |-> best.bestMatch])
                ELSE undefined
                : best \in {MaxAmountFrom(matches, 1, locale,
                                          [maxAmount |-> 0, bestMatch |-> ""])} })
         : matches \in {MatchAll(pattern, text)} })

RECURSIVE tryParseFrom(_, _, _, _)
tryParseFrom(text, currency, patterns, i) ==
  IF i > Len(patterns) THEN undefined
  ELSE Only({ IF IsDefined(r) THEN r ELSE tryParseFrom(text, currency, patterns, i + 1)
              : r \in {AmountOfPattern(text, currency, patterns[i], "auto")} })

\* LocalizedParser.tryParseWithPatterns: the first pattern, in order, that
\* has a match with a value above 0 decides
tryParseWithPatterns(text, currency, patterns) == tryParseFrom(text, currency, patterns, 1)

\* globalPatterns of parseAmountAdvanced: its keys in order, and their patterns
globalCurrencies == << "USD", "EUR", "TRY", "GBP" >>

globalPatterns(currency) ==
  CASE currency = "USD" -> << Prefixed("$", ",", "."), Prefixed("USD", ",", ".") >>
    [] currency = "EUR" -> << Prefixed("<", ".,", ".,"), Suffixed("<", ".,", ".,"),
                              Prefixed("EUR", ".,", ".,") >>
    [] currency = "TRY" -> << Prefixed(">", ".,", ".,"), Suffixed(">", ".,", ".,"),
                              Suffixed("TL", ".,", ".,") >>
    [] currency = "GBP" -> << Prefixed("[", ",", "."), Prefixed("GBP", ",", ".") >>
    [] OTHER -> undefined

RECURSIVE parseOthersFrom(_, _, _)
\* the loop over Object.entries(globalPatterns) from entry i on
parseOthersFrom(text, hint, i) ==
  IF i > Len(globalCurrencies) THEN undefined
  ELSE Only({ IF IsDefined(r) THEN r ELSE parseOthersFrom(text, hint, i + 1)
              : r \in {IF globalCurrencies[i] = hint.currency THEN undefined
                       ELSE tryParseWithPatterns(text, globalCurrencies[i],
                                                 globalPatterns(globalCurrencies[i]))} })

\* LocalizedParser.parseAmountAdvanced; hint.currency and hint.country are ""
\* when absent
parseAmountAdvanced(text, hint) ==
  Only({ IF IsDefined(hinted) THEN hinted ELSE parseOthersFrom(text, hint, 1)
         : hinted \in {IF hint.currency # "" /\ IsDefined(globalPatterns(hint.currency))
                       THEN tryParseWithPatterns(text, hint.currency,
                                                 globalPatterns(hint.currency))
                       ELSE undefined} })

RECURSIVE parseAmountFrom(_, _, _, _, _)
\* the loop of parseAmount over currencies from entry i on
parseAmountFrom(text, localeKey, patternsKey, currencies, i) ==
  IF i > Len(currencies) THEN undefined
  ELSE Only({ Only({ IF IsDefined(r) THEN r
                     ELSE parseAmountFrom(text, localeKey, patternsKey, currencies, i + 1)
                     : r \in {IF IsDefined(pattern)
                              THEN AmountOfPattern(text, currencies[i], pattern[1], localeKey)
                              ELSE undefined} })
              : pattern \in {CURRENCY_PATTERNS_BY_LOCALE(patternsKey, currencies[i])} })

\* `${locale?.languageCode}-${locale?.countryCode}` || 'en-US': the template
\* string is never empty, so the fallback is never taken
LocaleKeyOf(locale) ==
  IF IsDefined(locale) THEN locale[1].languageCode \o "-" \o locale[1].countryCode
  ELSE "undefined-undefined"

\* LocalizedParser.parseAmount when RNLocalize.getLocales()[0] is locale
parseAmount(text, locale) ==
  Only({ parseAmountFrom(text, localeKey, patternsKey, currencies, 1)
         : localeKey \in {LocaleKeyOf(locale)},
           patternsKey \in {IF LocaleKeyOf(locale) \in LocaleKeys THEN LocaleKeyOf(locale)
                            ELSE "en-US"},
           currencies \in {<< getPrimaryCurrency(
                                 IF IsDefined(locale) /\ locale[1].countryCode # ""
                                 THEN locale[1].countryCode ELSE "US") >>
                           \o Currency} })

IsLeapYear(y) == (y % 4 = 0 /\ y % 100 # 0) \/ y % 400 = 0

DaysInMonth(y, m) ==
  IF m = 2 THEN (IF IsLeapYear(y) THEN 29 ELSE 28)
  ELSE IF m \in {4, 6, 9, 11} THEN 30 ELSE 31

\* new Date(year, month - 1, day) for 1 <= month <= 12 and 1 <= day <= 31: a
\* day past the end of the month runs over into the next month
NewDate(year, month, day) ==
  IF day <= DaysInMonth(year, month)
  THEN [year |-> year, month |-> month, day |-> day]
  ELSE IF month = 12
       THEN [year |-> year + 1, month |-> 1, day |-> day - DaysInMonth(year, month)]
       ELSE [year |-> year, month |-> month + 1, day |-> day - DaysInMonth(year, month)]

\* the text from a position to its end
SubstringToEnd(text, from, to) ==
  Slice(text, IF from > Len(text) THEN Len(text) ELSE from, Len(text))

\* text.substring(from, to)
Substring(text, from, to) ==
  LET a == IF from > Len(text) THEN Len(text) ELSE from
      b == IF to > Len(text) THEN Len(text) ELSE to
  IN Slice(text, a, b)

\* the DateInfo of one match without the validation of day, month and year
DateOfMatchUnchecked(text, pattern, match, count, dueKeywords) ==
  Only({ LET isDueDate == \E k \in DOMAIN dueKeywords :
                              Includes(surrounding, toLowerCase(dueKeywords[k]))
         IN IF isDueDate \/ count = 1
            THEN Some([date |-> NewDate(year, month, day), raw |-> match.match,
                       format |-> pattern.format])
            ELSE undefined
         : surrounding \in {toLowerCase(Substring(text, Max({0, match.index - 50}),
                                                  match.index + 100))},
           day   \in {parseInt(match.groups[pattern.order[1] + 1])},
           month \in {parseInt(match.groups[pattern.order[2] + 1])},
           year  \in {parseInt(match.groups[pattern.order[3] + 1])} })

\* the DateInfo parseDate returns for one match of a pattern, undefined when
\* the match is passed over
DateOfMatch(text, pattern, match, count, dueKeywords) ==
  Only({ LET isDueDate == \E k \in DOMAIN dueKeywords :
                              Includes(surrounding, toLowerCase(dueKeywords[k]))
         IN IF /\ isDueDate \/ count = 1
               /\ day >= 1 /\ day <= 31 /\ month >= 1 /\ month <= 12 /\ year >= 2020
            THEN Some([date |-> NewDate(year, month, day), raw |-> match.match,
                       format |-> pattern.format])
            ELSE undefined
         : surrounding \in {toLowerCase(Substring(text, Max({0, match.index - 50}),
                                                  match.index + 100))},
           day   \in {parseInt(match.groups[pattern.order[1] + 1])},
           month \in {parseInt(match.groups[pattern.order[2] + 1])},
           year  \in {parseInt(match.groups[pattern.order[3] + 1])} })

RECURSIVE parseDateFrom(_, _, _, _, _)
\* the loops of parseDate from match j of pattern i on
parseDateFrom(text, patterns, dueKeywords, i, j) ==
  IF i > Len(patterns) THEN undefined
  ELSE Only({ IF j > Len(matches) THEN parseDateFrom(text, patterns, dueKeywords, i + 1, 1)
              ELSE Only({ IF IsDefined(r) THEN r
                          ELSE parseDateFrom(text, patterns, dueKeywords, i, j + 1)
                          : r \in {DateOfMatch(text, patterns[i], matches[j], Len(matches),
                                               dueKeywords)} })
              : matches \in {MatchAll(patterns[i], text)} })

\* LocalizedParser.parseDate when RNLocalize.getLocales()[0] is locale
parseDate(text, locale) ==
  Only({ parseDateFrom(text, patterns, dueKeywords, 1, 1)
         : patterns \in {IF LocaleKeyOf(locale) \in LocaleKeys
                         THEN DATE_PATTERNS_BY_LOCALE(LocaleKeyOf(locale))
                         ELSE DATE_PATTERNS_BY_LOCALE("en-US")},
           dueKeywords \in {getDueKeywords(
                              IF IsDefined(locale) /\ locale[1].languageCode # ""
                              THEN locale[1].languageCode ELSE "en")} })

\* ------------------------------------------------------------------------
\* AdvancedBillAnalyzer.  A confidence it returns is a number of
\* hundred-thousandths.
\* ------------------------------------------------------------------------
\* calculateParsingAccuracy, in hundredths
calculateParsingAccuracy(amount, dueDate) ==
  (IF IsDefined(amount) THEN 50 ELSE 0) + (IF IsDefined(dueDate) THEN 50 ELSE 0)

\* getDeviceCountry when RNLocalize.getLocales()[0] is locale
getDeviceCountry(locale) ==
  IF /\ IsDefined(locale)
     /\ locale[1].countryCode # ""
     /\ \E i \in DOMAIN Country : Country[i] = locale[1].countryCode
  THEN locale[1].countryCode
  ELSE "US"

\* a || b on optional strings, none of them empty
OrElse(a, b) == IF IsDefined(a) THEN a ELSE b

\* the value analyzeBillAdvanced returns when the OCR confidence is below 0.3
LowConfidenceResult(imageOptimized, ocrAccuracy) ==
  [ success |-> FALSE, result |-> undefined, billData |-> undefined, confidence |-> ocrAccuracy * 1000,
    processing |-> [imageOptimized |-> imageOptimized, ocrAccuracy |-> ocrAccuracy,
                    classificationAccuracy |-> 0, parsingAccuracy |-> 0],
    error |-> Some("OCR confidence too low. Please try with a clearer image.") ]

\* the value its catch block returns
CaughtResult(error) ==
  [ success |-> FALSE, result |-> undefined, billData |-> undefined, confidence |-> 0,
    processing |-> [imageOptimized |-> FALSE, ocrAccuracy |-> 0,
                    classificationAccuracy |-> 0, parsingAccuracy |-> 0],
    error |-> Some(error) ]

\* the value it returns at its end
SuccessResult(f) ==
  [ success |-> TRUE, result |-> Some(f.analysisResult), billData |-> Some(f.billData),
    confidence |-> f.calibratedConfidence,
    processing |-> [imageOptimized |-> f.imageOptimized, ocrAccuracy |-> f.ocrAccuracy,
                    classificationAccuracy |-> f.classificationResult.confidence,
                    parsingAccuracy |-> f.parsingAccuracy],
    error |-> undefined ]

\* what the catch block of quickAnalyze returns
QuickCaught ==
  [type |-> UNKNOWN, amount |-> undefined, company |-> undefined, confidence |-> 0]

\* ------------------------------------------------------------------------
\* Inputs
\* ------------------------------------------------------------------------
\* the longest text handed to classifyBill or to the parser, in fragments
MaxWords == 2

\* the fragments a text handed to classifyBill is made of
Words ==
  << "elektrik t@ketimi", "TEDA?", "su", "elektrik", "fatura", "kwh", "VODAFONE",
     "TURKCELL" >>

\* the fragments a text handed to the amount parser is made of
AmountWords ==
  << "$10.00", "USD 250.00", "$ 1,234.56", "1.234,56 <", "130,50 TL", "GBP 1,234", "1.234 <",
     "$89.99", "$0.00" >>

\* the fragments a text handed to the date parser is made of
DateWords ==
  << "15.03.2024", "30.02.2024", "32.01.2024", "03/15/2024", "01.01.2019", "f~llig",
     "due", "son #deme", "Rechnung", "F~llig am 15.03.2024" >>

RECURSIVE TextsOfLen(_, _)
\* the texts of n fragments of words, a space between two fragments
TextsOfLen(words, n) ==
  IF n = 0 THEN {""}
  ELSE {(IF t = "" THEN "" ELSE t \o " ") \o words[w] :
          t \in TextsOfLen(words, n - 1), w \in DOMAIN words}

Texts == UNION {TextsOfLen(Words, n) : n \in 0..MaxWords}

AmountTexts == UNION {TextsOfLen(AmountWords, n) : n \in 0..MaxWords}

DateTexts == UNION {TextsOfLen(DateWords, n) : n \in 0..MaxWords}

RECURSIVE PadOf(_)
\* n letters that belong to no date and to no keyword
PadOf(n) ==
  IF n = 0 THEN "" ELSE IF n = 1 THEN "x" ELSE PadOf(n \div 2) \o PadOf(n - n \div 2)

\* texts with two dates and a keyword at a distance from them, before or
\* after, and a text with one date for each of two patterns
LongDateTexts ==
  {"15.03.2024 16.03.2024 " \o PadOf(n) \o "f~llig" : n \in {43, 83, 84}}
    \cup {"f~llig" \o PadOf(n) \o " 15.03.2024 16.03.2024" : n \in {43, 44}}
    \cup {"15.03.2024 05/03/2024"}

\* the type argument of extractCompanyName, "" when it is not passed
CompanyTypes == {"", "electricity", "water", "phone"}

\* the country codes handed to getPrimaryCurrency: those of its table and
\* others
CountryCodes ==
  {"US", "GB", "TR", "DE", "FR", "ES", "IT", "CA", "AU", "JP", "CH", "SE", "NO", "UK", "BR"}

\* the language codes handed to getDueKeywords
LanguageCodes == {"en", "de", "tr", "fr", "es"}

\* the context argument of classifyBill: absent, or an object
Contexts ==
  { undefined,
    Some([currency |-> "", country |-> "", amountHint |-> 0]),
    Some([currency |-> "TRY", country |-> "TR", amountHint |-> 150000]),
    Some([currency |-> "TRY", country |-> "", amountHint |-> 0]),
    Some([currency |-> "USD", country |-> "US", amountHint |-> 150000]) }

\* the hint argument of parseAmountAdvanced
Hints ==
  {[currency |-> cu, country |-> ""] : cu \in {"", "USD", "TRY", "CHF"}}
    \cup {[currency |-> "", country |-> "TR"]}

\* the values of RNLocalize.getLocales()[0]
Locales ==
  { undefined,
    Some([languageCode |-> "en", countryCode |-> "US"]),
    Some([languageCode |-> "tr", countryCode |-> "TR"]),
    Some([languageCode |-> "de", countryCode |-> "DE"]),
    Some([languageCode |-> "fr", countryCode |-> "FR"]) }

\* the texts the OCR service returns
OcrTexts ==
  { "",
    "hello world",
    "vodafone elektrik kwh enerji",
    "elektrik su",
    "TEDA? elektrik t@ketimi 130,50 TL son #deme 15.03.2024",
    "RWE Strom Rechnung 1.234,56 < f~llig 15.03.2024",
    "Water bill $10.00 USD 250.00 due 03/15/2024" }

\* the confidences the OCR service returns, in hundredths
OcrConfidences == {20, 30}

\* the options argument of analyzeBillAdvanced; an option left out has the
\* effect of true, a hint left out is ""
AnalyzeOptions ==
  [ optimizeImage : BOOLEAN, saveToDatabase : BOOLEAN, scheduleNotifications : BOOLEAN,
    hints : {[currency |-> cu, country |-> ""] : cu \in {"", "TRY"}} ]

\* ------------------------------------------------------------------------
\* State
\* ------------------------------------------------------------------------
VARIABLES
  pc,         \* "idle", "returned", or the position of the operation invoked
  op,         \* the operation invoked, "" when idle
  args,       \* its arguments
  ret,        \* its return value
  scores,     \* the scores table of the last classifyBill
  lastIndex,  \* lastIndex of every RegExp of CLASSIFICATION_RULES
  warm,       \* an earlier operation has run classifyBill
  locale,     \* RNLocalize.getLocales()[0]
  frame,      \* the locals of the running analyzer call
  log,        \* the calls the running analyzer call has made to its collaborators
  batch       \* the locals of the running analyzeBatch, << >> when none runs

vars == << pc, op, args, ret, scores, lastIndex, warm, locale, frame, log, batch >>

Init ==
  /\ pc = "idle"
  /\ op = ""
  /\ args = << >>
  /\ ret = << >>
  /\ scores = << >>
  /\ lastIndex = ZeroIndex
  /\ warm = FALSE
  /\ locale = Some([languageCode |-> "en", countryCode |-> "US"])
  /\ frame = << >>
  /\ log = << >>
  /\ batch = << >>

Invoke(name, a) ==
  /\ pc = "idle"
  /\ pc' = "called"
  /\ op' = name
  /\ args' = a
  /\ ret' = << >>
  /\ frame' = << >>
  /\ log' = << >>
  /\ UNCHANGED << scores, lastIndex, warm, locale, batch >>

\* the caller takes the result; what the operation left behind stays.  A
\* result of analyzeBillAdvanced inside a batch goes to the batch instead
Return ==
  /\ pc = "returned"
  /\ IsDefined(batch) => op = "analyzeBatch"
  /\ batch' = << >>
  /\ pc' = "idle"
  /\ op' = ""
  /\ args' = << >>
  /\ ret' = << >>
  /\ scores' = << >>
  /\ frame' = << >>
  /\ log' = << >>
  /\ warm' = (warm \/ op \in {"classifyBill", "analyzeBillAdvanced", "quickAnalyze"})
  /\ UNCHANGED << lastIndex, locale >>

\* the user changes the language or region of the device
SetLocale ==
  /\ pc = "idle"
  /\ \E l \in Locales : locale' = l
  /\ UNCHANGED << pc, op, args, ret, scores, lastIndex, warm, frame, log, batch >>

CallCalibrateConfidence ==
  \E c \in 0..One, a \in BOOLEAN, d \in BOOLEAN, k \in BOOLEAN :
    Invoke("calibrateConfidence",
           [confidence |-> c, hasAmount |-> a, hasDate |-> d, hasCompany |-> k])

DoCalibrateConfidence ==
  /\ pc = "called" /\ op = "calibrateConfidence"
  /\ ret' = calibrateConfidence(args.confidence, args.hasAmount, args.hasDate, args.hasCompany)
  /\ pc' = "returned"
  /\ UNCHANGED << op, args, scores, lastIndex, warm, locale, frame, log, batch >>

CallClassifyBill ==
  \E t \in Texts, c \in Contexts : Invoke("classifyBill", [text |-> t, context |-> c])

DoClassifyBill ==
  /\ pc = "called" /\ op = "classifyBill"
  /\ \E r \in {classifyBill(args.text, args.context, lastIndex)} :
        /\ ret' = r.result
        /\ scores' = r.scores
        /\ lastIndex' = r.lastIndex
  /\ pc' = "returned"
  /\ UNCHANGED << op, args, warm, locale, frame, log, batch >>

CallParseAmountAdvanced ==
  \E t \in AmountTexts, h \in Hints : Invoke("parseAmountAdvanced", [text |-> t, hint |-> h])

DoParseAmountAdvanced ==
  /\ pc = "called" /\ op = "parseAmountAdvanced"
  /\ ret' = parseAmountAdvanced(args.text, args.hint)
  /\ pc' = "returned"
  /\ UNCHANGED << op, args, scores, lastIndex, warm, locale, frame, log, batch >>

CallParseAmount == \E t \in AmountTexts : Invoke("parseAmount", [text |-> t])

DoParseAmount ==
  /\ pc = "called" /\ op = "parseAmount"
  /\ ret' = parseAmount(args.text, locale)
  /\ pc' = "returned"
  /\ UNCHANGED << op, args, scores, lastIndex, warm, locale, frame, log, batch >>

CallParseDate ==
  \E t \in DateTexts \cup LongDateTexts : Invoke("parseDate", [text |-> t])

DoParseDate ==
  /\ pc = "called" /\ op = "parseDate"
  /\ ret' = parseDate(args.text, locale)
  /\ pc' = "returned"
  /\ UNCHANGED << op, args, scores, lastIndex, warm, locale, frame, log, batch >>

CallGetPrimaryCurrency ==
  \E c \in CountryCodes : Invoke("getPrimaryCurrency", [countryCode |-> c])

DoGetPrimaryCurrency ==
  /\ pc = "called" /\ op = "getPrimaryCurrency"
  /\ ret' = getPrimaryCurrency(args.countryCode)
  /\ pc' = "returned"
  /\ UNCHANGED << op, args, scores, lastIndex, warm, locale, frame, log, batch >>

CallGetDueKeywords ==
  \E l \in LanguageCodes : Invoke("getDueKeywords", [languageCode |-> l])

DoGetDueKeywords ==
  /\ pc = "called" /\ op = "getDueKeywords"
  /\ ret' = getDueKeywords(args.languageCode)
  /\ pc' = "returned"
  /\ UNCHANGED << op, args, scores, lastIndex, warm, locale, frame, log, batch >>

CallExtractCompanyName ==
  \E t \in Texts, ty \in CompanyTypes :
    Invoke("extractCompanyName", [text |-> t, type |-> ty])

DoExtractCompanyName ==
  /\ pc = "called" /\ op = "extractCompanyName"
  /\ ret' = extractCompanyName(args.text, args.type)
  /\ pc' = "returned"
  /\ UNCHANGED << op, args, scores, lastIndex, warm, locale, frame, log, batch >>

\* ------------------------------------------------------------------------
\* analyzeBillAdvanced, one action for each stretch between two awaits of a
\* collaborator
\* ------------------------------------------------------------------------
CallAnalyzeBillAdvanced ==
  \E o \in AnalyzeOptions : Invoke("analyzeBillAdvanced", [options |-> o])

\* step 1: ImageOptimizer.optimizeForOCR, which never throws and returns the
\* uri it was given when it fails
AnalyzeOptimize ==
  /\ pc = "called" /\ op = "analyzeBillAdvanced"
  /\ IF args.options.optimizeImage
     THEN \E changed \in BOOLEAN :
            /\ frame' = [imageOptimized |-> changed]
            /\ log' = Append(log, "optimizeForOCR")
     ELSE /\ frame' = [imageOptimized |-> FALSE]
          /\ log' = log
  /\ pc' = "ocr"
  /\ UNCHANGED << op, args, ret, scores, lastIndex, warm, locale, batch >>

\* step 2 without the test of the confidence
AnalyzeOCRUngated ==
  /\ pc = "ocr" /\ op = "analyzeBillAdvanced"
  /\ log' = Append(log, "processImageOptimized")
  /\ \/ /\ ret' = CaughtResult("Error: OCR processing failed")
        /\ pc' = "returned"
        /\ frame' = frame
     \/ \E text \in OcrTexts, confidence \in OcrConfidences :
          /\ frame' = [ imageOptimized |-> frame.imageOptimized,
                        ocrResult |-> [text |-> text, confidence |-> confidence],
                        ocrAccuracy |-> confidence ]
          /\ ret' = ret
          /\ pc' = "extract"
  /\ UNCHANGED << op, args, scores, lastIndex, warm, locale, batch >>

\* step 2: OptimizedOCRService.processImageOptimized throws, or returns a text
\* and a confidence; a confidence below 0.3 ends the analysis
AnalyzeOCR ==
  /\ pc = "ocr" /\ op = "analyzeBillAdvanced"
  /\ log' = Append(log, "processImageOptimized")
  /\ \/ /\ ret' = CaughtResult("Error: OCR processing failed")
        /\ pc' = "returned"
        /\ frame' = frame
     \/ \E text \in OcrTexts, confidence \in OcrConfidences :
          /\ frame' = [ imageOptimized |-> frame.imageOptimized,
                        ocrResult |-> [text |-> text, confidence |-> confidence],
                        ocrAccuracy |-> confidence ]
          /\ IF confidence < 30
             THEN /\ ret' = LowConfidenceResult(frame.imageOptimized, confidence)
                  /\ pc' = "returned"
             ELSE /\ ret' = ret
                  /\ pc' = "extract"
  /\ UNCHANGED << op, args, scores, lastIndex, warm, locale, batch >>

\* steps 3 to 8: parsing, classification, company, calibration and the
\* assembly of the result and of the bill, each constant of the code bound once
AnalyzeExtract ==
  /\ pc = "extract" /\ op = "analyzeBillAdvanced"
  /\ \E amount \in {parseAmountAdvanced(frame.ocrResult.text, args.options.hints)},
        dueDate \in {parseDate(frame.ocrResult.text, locale)} :
     \E classified \in
          {classifyBill(frame.ocrResult.text,
                        Some([currency |-> IF IsDefined(amount) THEN amount[1].currency ELSE "",
                              country |-> getDeviceCountry(locale),
                              amountHint |-> IF IsDefined(amount) THEN amount[1].value ELSE 0]),
                        lastIndex)} :
     \E companyInfo \in {extractCompanyName(frame.ocrResult.text, classified.result.type)} :
     \E calibratedConfidence \in
          {calibrateConfidence(classified.result.confidence, IsDefined(amount),
                               IsDefined(dueDate), IsDefined(companyInfo))} :
     \E company \in {OrElse(IF IsDefined(companyInfo) THEN Some(companyInfo[1].name)
                            ELSE undefined,
                            classified.result.companyName)} :
        /\ frame' = [ imageOptimized |-> frame.imageOptimized,
                      ocrResult |-> frame.ocrResult,
                      ocrAccuracy |-> frame.ocrAccuracy,
                      parsingAccuracy |-> calculateParsingAccuracy(amount, dueDate),
                      classificationResult |-> classified.result,
                      companyInfo |-> companyInfo,
                      calibratedConfidence |-> calibratedConfidence,
                      analysisResult |->
                        [ type |-> classified.result.type, amount |-> amount,
                          dueDate |-> dueDate, company |-> company,
                          confidence |-> calibratedConfidence ],
                      billData |->
                        [ id |-> "bill", type |-> classified.result.type, amount |-> amount,
                          dueDate |-> dueDate, company |-> company,
                          confidence |-> calibratedConfidence,
                          ocrText |-> frame.ocrResult.text ],
                      saveResult |-> undefined,
                      notification |-> "" ]
        /\ lastIndex' = classified.lastIndex
  /\ pc' = "save"
  /\ UNCHANGED << op, args, ret, scores, warm, locale, log, batch >>

\* step 9: ImageOptimizer.createMultipleSizes, which never throws, then
\* BillDatabase.saveBill, which resolves to a success or to a failure, or throws
AnalyzeSave ==
  /\ pc = "save" /\ op = "analyzeBillAdvanced"
  /\ IF args.options.saveToDatabase
     THEN /\ log' = log \o << "createMultipleSizes", "saveBill" >>
          /\ \/ \E success \in BOOLEAN :
                  /\ frame' = [frame EXCEPT !.saveResult = Some([success |-> success])]
                  /\ pc' = "notify"
                  /\ ret' = ret
             \/ /\ frame' = frame
                /\ pc' = "returned"
                /\ ret' = CaughtResult("Error: saveBill")
     ELSE /\ log' = log
          /\ frame' = frame
          /\ pc' = "notify"
          /\ ret' = ret
  /\ UNCHANGED << op, args, scores, lastIndex, warm, locale, batch >>

\* step 10 without the test of the due date
AnalyzeNotifyAlways ==
  /\ pc = "notify" /\ op = "analyzeBillAdvanced"
  /\ IF args.options.scheduleNotifications
     THEN /\ log' = Append(log, "scheduleBillReminders")
          /\ \E outcome \in {"true", "false", "throws"} :
                frame' = [frame EXCEPT !.notification = outcome]
     ELSE /\ log' = log
          /\ frame' = frame
  /\ ret' = SuccessResult(frame)
  /\ pc' = "returned"
  /\ UNCHANGED << op, args, scores, lastIndex, warm, locale, batch >>

\* step 10: NotificationService.scheduleBillReminders when a due date was
\* found; it resolves to true or to false, or throws into a catch of its own.
\* Then the result
AnalyzeNotify ==
  /\ pc = "notify" /\ op = "analyzeBillAdvanced"
  /\ IF args.options.scheduleNotifications /\ IsDefined(frame.billData.dueDate)
     THEN /\ log' = Append(log, "scheduleBillReminders")
          /\ \E outcome \in {"true", "false", "throws"} :
                frame' = [frame EXCEPT !.notification = outcome]
     ELSE /\ log' = log
          /\ frame' = frame
  /\ ret' = SuccessResult(frame)
  /\ pc' = "returned"
  /\ UNCHANGED << op, args, scores, lastIndex, warm, locale, batch >>

\* ------------------------------------------------------------------------
\* quickAnalyze
\* ------------------------------------------------------------------------
CallQuickAnalyze == Invoke("quickAnalyze", << >>)

\* OptimizedOCRService.processImageOptimized throws, or returns a text
QuickOCR ==
  /\ pc = "called" /\ op = "quickAnalyze"
  /\ log' = Append(log, "processImageOptimized")
  /\ \/ /\ ret' = QuickCaught
        /\ pc' = "returned"
        /\ frame' = frame
     \/ \E text \in OcrTexts, confidence \in OcrConfidences :
          /\ frame' = [ocrResult |-> [text |-> text, confidence |-> confidence]]
          /\ ret' = ret
          /\ pc' = "extract"
  /\ UNCHANGED << op, args, scores, lastIndex, warm, locale, batch >>

\* classification and amount parsing; the confidence returned is the
\* classifier's, in hundredths
QuickClassify ==
  /\ pc = "extract" /\ op = "quickAnalyze"
  /\ \E classified \in {classifyBill(frame.ocrResult.text, undefined, lastIndex)},
        amount \in {parseAmount(frame.ocrResult.text, locale)} :
        /\ ret' = [ type |-> classified.result.type,
                    amount |-> amount,
                    company |-> classified.result.companyName,
                    confidence |-> classified.result.confidence ]
        /\ lastIndex' = classified.lastIndex
  /\ pc' = "returned"
  /\ UNCHANGED << op, args, scores, warm, locale, frame, log, batch >>

\* ------------------------------------------------------------------------
\* Specifications
\* ------------------------------------------------------------------------
NextCalibrate == CallCalibrateConfidence \/ DoCalibrateConfidence \/ Return

\* calls of AIBillClassifier.calibrateConfidence
SpecCalibrate == Init /\ [][NextCalibrate]_vars

NextClassify == CallClassifyBill \/ DoClassifyBill \/ Return

\* calls of AIBillClassifier.classifyBill
SpecClassify == Init /\ [][NextClassify]_vars

\* the same calls, for the properties of the scores table and of the company
SpecScores == Init /\ [][NextClassify]_vars

NextParser == CallParseAmountAdvanced \/ DoParseAmountAdvanced \/ Return

\* calls of LocalizedParser.parseAmountAdvanced
SpecParser == Init /\ [][NextParser]_vars

NextAmounts ==
  \/ SetLocale
  \/ CallParseAmountAdvanced \/ DoParseAmountAdvanced
  \/ CallParseAmount \/ DoParseAmount
  \/ Return

\* calls of the two amount parsers on a device whose locale changes
SpecAmounts == Init /\ [][NextAmounts]_vars

NextLocalized ==
  \/ SetLocale
  \/ CallParseAmount \/ DoParseAmount
  \/ CallParseDate \/ DoParseDate
  \/ CallGetPrimaryCurrency \/ DoGetPrimaryCurrency
  \/ CallGetDueKeywords \/ DoGetDueKeywords
  \/ Return

\* calls of the operations of LocalizedParser that read the device's locale
SpecLocalized == Init /\ [][NextLocalized]_vars

NextCompany == CallExtractCompanyName \/ DoExtractCompanyName \/ Return

\* calls of AIBillClassifier.extractCompanyName
SpecCompany == Init /\ [][NextCompany]_vars

Next ==
  \/ SetLocale
  \/ CallAnalyzeBillAdvanced \/ AnalyzeOptimize \/ AnalyzeOCR \/ AnalyzeExtract
  \/ AnalyzeSave \/ AnalyzeNotify
  \/ CallQuickAnalyze \/ QuickOCR \/ QuickClassify
  \/ Return

\* calls of the analyzer
Spec == Init /\ [][Next]_vars


\* ------------------------------------------------------------------------
\* Calls of parseNumericAmount
\* ------------------------------------------------------------------------
\* the numeric substrings a currency pattern hands over: one to three digits,
\* then groups of a separator and three or two digits, of at most seven digits
\* in all (the thousandths of a longer one are beyond 32 bits)
NumericStrings ==
  LET heads == << "1", "12" >>
      groups == << ".234", ",234", ",56", ".56" >>
      tails[n \in 0..MaxWords] ==
        IF n = 0 THEN {""}
        ELSE {t \o groups[g] : t \in tails[n - 1], g \in DOMAIN groups}
  IN {s \in {heads[h] \o t : h \in DOMAIN heads, t \in UNION {tails[n] : n \in 0..MaxWords}} :
        Len(Remove(s, {".", ","})) <= 7}

\* the locale argument of parseNumericAmount: 'auto' from tryParseWithPatterns,
\* a locale key from parseAmount
NumericLocales == {"auto", "en-US", "de-DE", "tr-TR"}

CallParseNumericAmount ==
  \E s \in NumericStrings, l \in NumericLocales :
    Invoke("parseNumericAmount", [amountStr |-> s, locale |-> l])

DoParseNumericAmount ==
  /\ pc = "called" /\ op = "parseNumericAmount"
  /\ ret' = parseNumericAmount(args.amountStr, args.locale)
  /\ pc' = "returned"
  /\ UNCHANGED << op, args, scores, lastIndex, warm, locale, frame, log, batch >>

NextNumeric == CallParseNumericAmount \/ DoParseNumericAmount \/ Return

\* calls of LocalizedParser.parseNumericAmount
SpecNumeric == Init /\ [][NextNumeric]_vars

\* ------------------------------------------------------------------------
\* analyzeBatch: a loop of calls of analyzeBillAdvanced, one after the other
\* ------------------------------------------------------------------------
\* the imageUris argument of analyzeBatch
ImageLists ==
  { << >>, << "a.jpg" >>, << "a.jpg", "b.jpg" >>, << "b.jpg", "a.jpg" >> }

\* the options analyzeBatch passes to analyzeBillAdvanced
BatchOptions ==
  [ optimizeImage |-> TRUE, saveToDatabase |-> TRUE, scheduleNotifications |-> TRUE,
    hints |-> [currency |-> "", country |-> ""] ]

CallAnalyzeBatch ==
  /\ pc = "idle"
  /\ \E uris \in ImageLists : batch' = Some([imageUris |-> uris, i |-> 0, results |-> << >>])
  /\ pc' = "loop"
  /\ op' = "analyzeBatch"
  /\ UNCHANGED << args, ret, scores, lastIndex, warm, locale, frame, log >>

\* the test of the loop: the call of analyzeBillAdvanced for imageUris[i], or
\* the return of the results after the last image
BatchLoop ==
  /\ pc = "loop" /\ op = "analyzeBatch"
  /\ IF batch[1].i < Len(batch[1].imageUris)
     THEN /\ pc' = "called"
          /\ op' = "analyzeBillAdvanced"
          /\ args' = [imageUri |-> batch[1].imageUris[batch[1].i + 1], options |-> BatchOptions]
          /\ ret' = << >>
          /\ frame' = << >>
          /\ log' = << >>
     ELSE /\ pc' = "returned"
          /\ ret' = batch[1].results
          /\ UNCHANGED << op, args, frame, log >>
  /\ UNCHANGED << scores, lastIndex, warm, locale, batch >>

\* a loop body that keeps no entry for an analysis that failed
BatchCollectSkipFailed ==
  /\ pc = "returned" /\ op = "analyzeBillAdvanced" /\ IsDefined(batch)
  /\ batch' = Some([batch[1] EXCEPT
                      !.results = IF ret.success
                                  THEN Append(@, [imageUri |-> args.imageUri, result |-> ret.result,
                                                  success |-> ret.success, error |-> ret.error])
                                  ELSE @,
                      !.i = @ + 1])
  /\ pc' = "loop"
  /\ op' = "analyzeBatch"
  /\ warm' = TRUE
  /\ UNCHANGED << args, ret, scores, lastIndex, locale, frame, log >>

\* the rest of the loop body once analyzeBillAdvanced has returned: the entry
\* of the image, the wait of 100 ms and i++.  analyzeBillAdvanced catches
\* every error itself, so the catch block of the loop body is never entered
BatchCollect ==
  /\ pc = "returned" /\ op = "analyzeBillAdvanced" /\ IsDefined(batch)
  /\ batch' = Some([batch[1] EXCEPT
                      !.results = Append(@, [imageUri |-> args.imageUri, result |-> ret.result,
                                             success |-> ret.success, error |-> ret.error]),
                      !.i = @ + 1])
  /\ pc' = "loop"
  /\ op' = "analyzeBatch"
  /\ warm' = TRUE
  /\ UNCHANGED << args, ret, scores, lastIndex, locale, frame, log >>

NextBatch ==
  \/ CallAnalyzeBatch \/ BatchLoop \/ BatchCollect
  \/ AnalyzeOptimize \/ AnalyzeOCR \/ AnalyzeExtract \/ AnalyzeSave \/ AnalyzeNotify
  \/ Return

\* calls of analyzeBatch
SpecBatch == Init /\ [][NextBatch]_vars
\* ------------------------------------------------------------------------
\* Properties of calibrateConfidence (SpecCalibrate)
\* ------------------------------------------------------------------------
CalibrateReturned == pc = "returned" /\ op = "calibrateConfidence"

\* C1: for every raw confidence in [0,1] and every combination of hasAmount,
\* hasDate and hasCompany, calibrateConfidence returns a value between 0.1 and
\* 0.98, both included.
C1_CalibratedInRange == CalibrateReturned => (10000 <= ret /\ ret <= 98000)

\* calibrateConfidence has returned the floor for a small raw confidence with
\* signals missing, and elsewhere the ceiling for raw confidence 1
C1_Witness ==
  /\ CalibrateReturned
  /\ \/ args.confidence = 5 /\ ~args.hasAmount /\ ~args.hasCompany /\ ret = 10000
     \/ args.confidence = One /\ args.hasAmount /\ args.hasDate /\ args.hasCompany
        /\ ret = 98000

\* the calibrated confidence of c with exactly one signal removed: the three
\* results
OneRemoved(c) ==
  { calibrateConfidence(c, FALSE, TRUE, TRUE),
    calibrateConfidence(c, TRUE, FALSE, TRUE),
    calibrateConfidence(c, TRUE, TRUE, FALSE) }

AllPresentReturned ==
  CalibrateReturned /\ args.hasAmount /\ args.hasDate /\ args.hasCompany

\* C2 as stated: for every raw confidence in [0,1] the result with all three
\* signals present is strictly greater than the result with exactly one of
\* them removed, raw values at the floor or above the ceiling included.
C2_StrictForEveryRaw == AllPresentReturned => \A r \in OneRemoved(args.confidence) : ret > r

\* C2, amended: the result with all three signals present is strictly greater
\* than the result with exactly one of them removed when the raw confidence is
\* above 0.1; for a raw confidence of 0.1 or less both are the floor 0.1.
C2_StrictAboveFloor ==
  AllPresentReturned =>
    IF args.confidence > 10
    THEN \A r \in OneRemoved(args.confidence) : ret > r
    ELSE ret = 10000 /\ OneRemoved(args.confidence) = {10000}

\* all three signals present: a raw confidence above the ceiling, one just
\* above the floor whose discounted values fall below it, and one at the floor
C2_Witness ==
  /\ AllPresentReturned
  /\ args.confidence \in {One, 11, 10}

\* C3: changing any one of hasAmount, hasDate, hasCompany from true to false,
\* the raw confidence and the other two signals unchanged, never gives a greater
\* result.
C3_MonotoneInEachSignal ==
  CalibrateReturned =>
    /\ args.hasAmount =>
         calibrateConfidence(args.confidence, FALSE, args.hasDate, args.hasCompany) <= ret
    /\ args.hasDate =>
         calibrateConfidence(args.confidence, args.hasAmount, FALSE, args.hasCompany) <= ret
    /\ args.hasCompany =>
         calibrateConfidence(args.confidence, args.hasAmount, args.hasDate, FALSE) <= ret

\* a call with the company present and the amount missing whose result drops
\* when the company is removed
C3_Witness ==
  /\ CalibrateReturned
  /\ args.hasCompany /\ ~args.hasAmount
  /\ calibrateConfidence(args.confidence, args.hasAmount, args.hasDate, FALSE) < ret

\* the factor of a signal, in hundredths: 1 when present, else its discount
FactorOf(present, discount) == IF present THEN 100 ELSE discount

\* clamp(x, 0.1, 0.98) in hundred-thousandths, stated on its own
ClampOf(x) == IF x < 10000 THEN 10000 ELSE IF x > 98000 THEN 98000 ELSE x

\* the discounts of the model applied to c in the order given, then the clamp
RECURSIVE DiscountsIn(_, _, _, _, _)
DiscountsIn(order, c, a, d, k) ==
  IF order = << >> THEN c
  ELSE LET rest == DiscountsIn(Tail(order), c, a, d, k)
       IN CASE Head(order) = "amount" -> DiscountAmount(rest, a)
            [] Head(order) = "date" -> DiscountDate(rest, d)
            [] Head(order) = "company" -> DiscountCompany(rest, k)

Orders ==
  { << "amount", "date", "company" >>, << "amount", "company", "date" >>,
    << "date", "amount", "company" >>, << "date", "company", "amount" >>,
    << "company", "amount", "date" >>, << "company", "date", "amount" >> }

\* C4: calibrateConfidence(c, a, d, k) is clamp(c * (a ? 1 : 0.8) * (d ? 1 : 0.9)
\* * (k ? 1 : 0.85), 0.1, 0.98), and applying the three discounts in any of the
\* six orders gives that same result (in exact arithmetic).
C4_ProductFormula ==
  CalibrateReturned =>
    /\ ret = ClampOf((args.confidence * FactorOf(args.hasAmount, 80)
                      * FactorOf(args.hasDate, 90) * FactorOf(args.hasCompany, 85)) \div 1000)
    /\ \A order \in Orders :
         ret = ClampCalibrated(DiscountsIn(order, args.confidence * 1000, args.hasAmount,
                                           args.hasDate, args.hasCompany))

\* all three discounts applied to a raw confidence the clamp leaves alone:
\* 0.5 * 0.8 * 0.9 * 0.85 = 0.306
C4_Witness ==
  /\ CalibrateReturned
  /\ args.confidence = 50 /\ ~args.hasAmount /\ ~args.hasDate /\ ~args.hasCompany
  /\ ret = 30600

\* ------------------------------------------------------------------------
\* Properties of the analyzer (Spec)
\* ------------------------------------------------------------------------
\* C5 as stated: the confidence of a successful analyzeBillAdvanced result, and
\* the confidence quickAnalyze returns with a type other than UNKNOWN, lie
\* between 0.1 and 0.98.
C5_ReportedConfidenceInRange ==
  /\ (pc = "returned" /\ op = "analyzeBillAdvanced" /\ ret.success)
       => (10000 <= ret.confidence /\ ret.confidence <= 98000)
  /\ (pc = "returned" /\ op = "quickAnalyze" /\ ret.type # UNKNOWN)
       => (10 <= ret.confidence /\ ret.confidence <= 98)

\* ------------------------------------------------------------------------
\* Properties of classifyBill (SpecClassify)
\* ------------------------------------------------------------------------
ClassifyReturned == pc = "returned" /\ op = "classifyBill"

\* the positions, in the enumeration order, of the types with the highest score
TopTypes == {i \in DOMAIN InvoiceType : \A j \in DOMAIN InvoiceType :
                                           scores[InvoiceType[i]] >= scores[InvoiceType[j]]}

\* C6 as stated: when several types share the highest final score, the one
\* declared earliest in the enumeration order wins.
C6_EarliestOfTopWins == ClassifyReturned => ret.type = InvoiceType[Min(TopTypes)]

\* C6, amended: when several types share the highest final score, the one
\* declared latest in the enumeration order wins; a type wins over a
\* later-declared type only with a strictly higher score.
C6_LatestOfTopWins ==
  ClassifyReturned =>
    /\ ret.type = InvoiceType[Max(TopTypes)]
    /\ \A i \in DOMAIN InvoiceType :
         (InvoiceType[i] = ret.type) =>
           \A j \in DOMAIN InvoiceType : j > i => scores[InvoiceType[i]] > scores[InvoiceType[j]]

\* electricity and water share the highest score, which is above 0, and the
\* later-declared water is returned
C6_Witness ==
  /\ ClassifyReturned
  /\ TopTypes = {1, 2}
  /\ scores[ELECTRICITY] > 0
  /\ ret.type = "water"

C8_HistoryIndependent ==
  ClassifyReturned =>
    \E fresh \in {classifyBill(args.text, args.context, ZeroIndex).result} :
       /\ ret.type = fresh.type
       /\ ret.confidence = fresh.confidence
       /\ ret.reasoning = fresh.reasoning

\* a later call, for a text with water and electricity vocabulary, that
\* matched a pattern too
C8_Witness ==
  /\ ClassifyReturned /\ warm
  /\ args.text \in {"elektrik su", "su kwh"}
  /\ ret.type = "water"

\* C9 as stated: a text with "elektrik tüketimi" and "TEDAŞ" and nothing else
\* classifies as ELECTRICITY with confidence 0.9 or more, and the company
\* extracted for ELECTRICITY is "TEDAŞ", found in the known-company list
\* (which extractCompanyName reports with confidence 0.95).
C9_KeywordAndCompanyScenario ==
  (ClassifyReturned /\ args.text \in {"elektrik t@ketimi TEDA?", "TEDA? elektrik t@ketimi"})
    => /\ ret.type = ELECTRICITY
       /\ ret.confidence >= 90
       /\ extractCompanyName(args.text, ELECTRICITY) = Some([name |-> "TEDA?", confidence |-> 95])

\* ------------------------------------------------------------------------
\* Properties of parseAmountAdvanced (SpecParser)
\* ------------------------------------------------------------------------
\* the values found by each of the surface patterns of a currency
AmountsOf(text, currency) ==
  LET patterns == globalPatterns(currency)
      found == {i \in DOMAIN patterns :
                  IsDefined(AmountOfPattern(text, currency, patterns[i], "auto"))}
  IN {AmountOfPattern(text, currency, patterns[i], "auto")[1].value : i \in found}

\* C10 as stated: the value parseAmountAdvanced returns is the largest of the
\* amounts of the returned currency in the text, whichever of the currency's
\* surface patterns each amount is written in.
C10_LargestOfAllForms ==
  (pc = "returned" /\ op = "parseAmountAdvanced" /\ IsDefined(ret))
    => ret[1].value = Max(AmountsOf(args.text, ret[1].currency))

\* ------------------------------------------------------------------------
\* Properties of the amount parsers (SpecAmounts, SpecParser)
\* ------------------------------------------------------------------------
AmountReturned == pc = "returned" /\ op \in {"parseAmountAdvanced", "parseAmount"}

\* the patterns the operation that returned can try, each with the way its
\* captures are read
PatternsTried ==
  IF op = "parseAmountAdvanced"
  THEN UNION {{[pattern |-> globalPatterns(globalCurrencies[c])[i], locale |-> "auto"] :
                 i \in DOMAIN globalPatterns(globalCurrencies[c])} :
              c \in DOMAIN globalCurrencies}
  ELSE UNION {{[pattern |-> CURRENCY_PATTERNS_BY_LOCALE(k, Currency[c])[1],
                locale |-> LocaleKeyOf(locale)] :
                 c \in {d \in DOMAIN Currency :
                          IsDefined(CURRENCY_PATTERNS_BY_LOCALE(k, Currency[d]))}} :
              k \in {IF LocaleKeyOf(locale) \in LocaleKeys THEN LocaleKeyOf(locale)
                     ELSE "en-US"}}

\* some pattern has a match in the text that reads as a number above 0
SomePositiveMatch ==
  \E t \in PatternsTried :
    \E found \in {MatchAll(t.pattern, args.text)} :
      \E i \in DOMAIN found : parseNumericAmount(found[i].groups[1], t.locale) > 0

\* C11: an amount parseAmountAdvanced or parseAmount returns has a value
\* above 0 (so neither 0, nor negative, nor NaN) and a currency of the enum
\* Currency, and an amount is returned exactly when some currency pattern has
\* a match that reads as a number above 0: otherwise the result is undefined.
C11_AmountPositiveOrAbsent ==
  AmountReturned =>
    /\ IsDefined(ret) => /\ ret[1].value > 0
                         /\ ret[1].value # NaN
                         /\ \E c \in DOMAIN Currency : Currency[c] = ret[1].currency
    /\ IsDefined(ret) <=> SomePositiveMatch

\* a text whose first match reads as 0 and whose second is above 0
C11_Witness ==
  /\ AmountReturned
  /\ op = "parseAmountAdvanced"
  /\ args.text = "$0.00 USD 250.00"
  /\ IsDefined(ret)
  /\ ret[1].value = 250000

\* C12: with no currency hint parseAmountAdvanced reads "1.234,56 €" as
\* 1234.56 EUR, "$89.99" as 89.99 USD and "130,50 TL" as 130.50 TRY.
C12_SeparatorExamples ==
  (pc = "returned" /\ op = "parseAmountAdvanced" /\ args.hint.currency = "")
    => /\ args.text = "1.234,56 <"
            => IsDefined(ret) /\ ret[1].value = 1234560 /\ ret[1].currency = "EUR"
       /\ args.text = "$89.99"
            => IsDefined(ret) /\ ret[1].value = 89990 /\ ret[1].currency = "USD"
       /\ args.text = "130,50 TL"
            => IsDefined(ret) /\ ret[1].value = 130500 /\ ret[1].currency = "TRY"

C12_Witness ==
  /\ pc = "returned" /\ op = "parseAmountAdvanced" /\ args.hint.currency = ""
  /\ args.text = "1.234,56 <"
  /\ ret = Some([value |-> 1234560, currency |-> "EUR", raw |-> "1.234,56"])

\* ------------------------------------------------------------------------
\* Properties of parseDate (SpecLocalized)
\* ------------------------------------------------------------------------
DateReturned == pc = "returned" /\ op = "parseDate"

\* the three numbers written in a matched substring, in the order written
NumbersOf(raw) ==
  Only({ << parseInt(Slice(raw, 0, a)), parseInt(Slice(raw, a + 1, b)),
            parseInt(Slice(raw, b + 1, Len(raw))) >>
         : a \in {RunEnd(raw, 0, DigitChars)},
           b \in {RunEnd(raw, RunEnd(raw, 0, DigitChars) + 1, DigitChars)} })

\* the day, month and year a matched substring names under a format label
NamedDate(raw, format) ==
  IF SubSeq(format, 1, 2) = "MM"
  THEN [year |-> NumbersOf(raw)[3], month |-> NumbersOf(raw)[1], day |-> NumbersOf(raw)[2]]
  ELSE [year |-> NumbersOf(raw)[3], month |-> NumbersOf(raw)[2], day |-> NumbersOf(raw)[1]]

IsCalendarDate(d) ==
  /\ d.month \in 1..12
  /\ d.day \in 1..DaysInMonth(d.year, d.month)

\* C13 as stated: a date parseDate returns is a day of the calendar, and it
\* is the day, month and year written in the matched substring; a substring
\* that names a day its month does not have is never returned as a date.
C13_RealCalendarDate ==
  (DateReturned /\ IsDefined(ret))
    => /\ IsCalendarDate(NamedDate(ret[1].raw, ret[1].format))
       /\ ret[1].date = NamedDate(ret[1].raw, ret[1].format)

\* the date patterns parseDate uses on the device
PatternsOfDevice ==
  IF LocaleKeyOf(locale) \in LocaleKeys THEN DATE_PATTERNS_BY_LOCALE(LocaleKeyOf(locale))
  ELSE DATE_PATTERNS_BY_LOCALE("en-US")

\* the due-date keywords parseDate uses on the device
KeywordsOfDevice ==
  getDueKeywords(IF IsDefined(locale) /\ locale[1].languageCode # ""
                 THEN locale[1].languageCode ELSE "en")

\* a keyword occurs in the window of the text around a match at index
KeywordInWindow(text, index) ==
  \E w \in {toLowerCase(Substring(text, Max({0, index - 50}), index + 100))} :
    \E k \in DOMAIN KeywordsOfDevice : Includes(w, toLowerCase(KeywordsOfDevice[k]))

InRange(d) == d.day \in 1..31 /\ d.month \in 1..12 /\ d.year >= 2020

\* the matches of the text that parseDate may return: near a keyword or the
\* only match of their pattern, and with day, month and year in range
CandidatesOf(pattern) ==
  Only({ {[raw |-> found[j].match, format |-> pattern.format] :
            j \in {n \in DOMAIN found :
                     /\ KeywordInWindow(args.text, found[n].index) \/ Len(found) = 1
                     /\ InRange(NamedDate(found[n].match, pattern.format))}}
         : found \in {MatchAll(pattern, args.text)} })

Candidates == UNION {CandidatesOf(PatternsOfDevice[i]) : i \in DOMAIN PatternsOfDevice}

\* C14: a date parseDate returns comes from a match whose day is in 1..31,
\* whose month is in 1..12 and whose year is 2020 or later, with or without a
\* keyword near it; a match out of range is passed over without an error and
\* the other matches are still considered, so a date is returned exactly when
\* some match that is near a keyword, or alone for its pattern, is in range.
C14_OutOfRangePassedOver ==
  DateReturned =>
    /\ IsDefined(ret) => InRange(NamedDate(ret[1].raw, ret[1].format))
    /\ IsDefined(ret) <=> Candidates # {}
    /\ IsDefined(ret) => [raw |-> ret[1].raw, format |-> ret[1].format] \in Candidates

\* day 32 next to a keyword is passed over and the date after it is returned
C14_Witness ==
  /\ DateReturned
  /\ locale = Some([languageCode |-> "de", countryCode |-> "DE"])
  /\ args.text = "32.01.2024 F~llig am 15.03.2024"
  /\ KeywordInWindow(args.text, 0)
  /\ IsDefined(ret)
  /\ ret[1].raw = "15.03.2024"

\* a keyword of the device's language lies within 50 code units of the
\* stretch of the text from index to end
KeywordWithin50(text, index, end) ==
  \E k \in DOMAIN KeywordsOfDevice :
    \E kw \in {toLowerCase(KeywordsOfDevice[k])}, t \in {toLowerCase(text)} :
      \E q \in 0..(Len(t) - Len(kw)) :
        /\ SubSeq(t, q + 1, q + Len(kw)) = kw
        /\ q >= index - 50
        /\ q + Len(kw) <= end + 50

AnalyzeHasOcr == op = "analyzeBillAdvanced" /\ "ocrAccuracy" \in DOMAIN frame

Logged(call) == \E i \in DOMAIN log : log[i] = call

\* C16: with an OCR confidence below 0.3 analyzeBillAdvanced returns at once,
\* with success false, no result and the error "OCR confidence too low.
\* Please try with a clearer image.", and nothing is parsed, classified,
\* extracted, saved or scheduled; with 0.3 or more the amount, the date, the
\* classification and the company are all computed.
C16_LowConfidenceStops ==
  AnalyzeHasOcr =>
    IF frame.ocrAccuracy < 30
    THEN /\ pc = "returned"
         /\ ret.success = FALSE
         /\ ret.result = undefined
         /\ ret.billData = undefined
         /\ ret.error = Some("OCR confidence too low. Please try with a clearer image.")
         /\ DOMAIN frame = {"imageOptimized", "ocrResult", "ocrAccuracy"}
         /\ ~Logged("createMultipleSizes") /\ ~Logged("saveBill")
         /\ ~Logged("scheduleBillReminders")
    ELSE \/ pc = "extract"
         \/ /\ pc \in {"save", "notify", "returned"}
            /\ {"analysisResult", "classificationResult", "companyInfo", "parsingAccuracy"}
                 \subseteq DOMAIN frame
            /\ pc = "save"
                 => /\ frame.analysisResult.amount
                         = parseAmountAdvanced(frame.ocrResult.text, args.options.hints)
                    /\ frame.analysisResult.dueDate
                         = parseDate(frame.ocrResult.text, locale)

\* a text with an amount and a date, read with confidence 0.2
C16_Witness ==
  /\ AnalyzeHasOcr
  /\ frame.ocrAccuracy = 20
  /\ frame.ocrResult.text = "Water bill $10.00 USD 250.00 due 03/15/2024"
  /\ pc = "returned"
  /\ ret.success = FALSE

SaveThrew ==
  /\ pc = "returned"
  /\ "saveResult" \in DOMAIN frame
  /\ args.options.saveToDatabase
  /\ ~IsDefined(frame.saveResult)

\* the text has no amount, no date, no company and no word of any bill type
NothingIn(text) ==
  /\ ~IsDefined(parseAmountAdvanced(text, args.options.hints))
  /\ ~IsDefined(parseDate(text, locale))
  /\ classifyBill(text, undefined, ZeroIndex).result.type = UNKNOWN
  /\ \A i \in DOMAIN InvoiceType : ~IsDefined(extractCompanyName(text, InvoiceType[i]))

\* C19 as stated: when the OCR confidence is 0.3 or more and the text yields
\* no amount, no date, no company and no keyword, analyzeBillAdvanced
\* returns success with type UNKNOWN, no amount, no due date, no company and
\* the floor 0.1 as confidence, also when saveBill reports a failure.
C19_NothingMatchedIsUnknown ==
  ( /\ AnalyzeHasOcr
    /\ frame.ocrAccuracy >= 30
    /\ pc = "returned"
    /\ ~SaveThrew
    /\ NothingIn(frame.ocrResult.text) )
    => /\ ret.success = TRUE
       /\ ret.result[1].type = UNKNOWN
       /\ ret.result[1].amount = undefined
       /\ ret.result[1].dueDate = undefined
       /\ ret.result[1].company = undefined
       /\ ret.confidence = 10000

\* ------------------------------------------------------------------------
\* Properties of extractCompanyName (SpecCompany)
\* ------------------------------------------------------------------------
\* the companies of a type's list that occur in the text, letter case apart
OccurringCompanies(text, type) ==
  {i \in DOMAIN CLASSIFICATION_RULES[type].companies :
     Includes(toLowerCase(text), toLowerCase(CLASSIFICATION_RULES[type].companies[i]))}

\* C17 as stated: when a company of the type's list occurs in the text,
\* letter case apart, extractCompanyName returns the first such company with
\* confidence 0.95, whatever letters and punctuation the name has; otherwise
\* its confidence is 0.7 or there is no result.
C17_KnownCompanyFirst ==
  (pc = "returned" /\ op = "extractCompanyName" /\ args.type # "")
    => IF OccurringCompanies(args.text, args.type) # {}
       THEN ret = Some([name |-> CLASSIFICATION_RULES[args.type].companies[
                                   Min(OccurringCompanies(args.text, args.type))],
                        confidence |-> 95])
       ELSE IsDefined(ret) => ret[1].confidence = 70

\* ------------------------------------------------------------------------
\* Properties of the locale lookups (SpecLocalized)
\* ------------------------------------------------------------------------
\* the primary currency of each country code of the table
PrimaryOf ==
  [ US |-> "USD", GB |-> "GBP", TR |-> "TRY", DE |-> "EUR", FR |-> "EUR", ES |-> "EUR",
    IT |-> "EUR", CA |-> "CAD", AU |-> "AUD", JP |-> "JPY", CH |-> "CHF", SE |-> "SEK",
    NO |-> "NOK" ]

EnglishKeywords == << "due", "payment due", "pay by", "deadline", "due date", "payable by" >>

\* the device's locale has no entry in the pattern tables
UnknownLocale == LocaleKeyOf(locale) \notin {"en-US", "de-DE", "tr-TR"}

\* C20: getPrimaryCurrency returns the table's entry for a country code of
\* the table and USD for another; getDueKeywords returns the list of en, de
\* or tr and the English list for another language; parseDate and
\* parseAmount on a device whose locale is missing or has no entry use the
\* en-US patterns.
C20_LookupsFallBack ==
  pc = "returned" =>
    /\ op = "getPrimaryCurrency"
         => ret = IF args.countryCode \in DOMAIN PrimaryOf THEN PrimaryOf[args.countryCode]
                  ELSE "USD"
    /\ op = "getDueKeywords"
         => /\ args.languageCode \notin {"de", "tr"} => ret = EnglishKeywords
            /\ args.languageCode = "de" => Len(ret) = 5 /\ ret[1] = "f~llig"
            /\ args.languageCode = "tr" => Len(ret) = 6 /\ ret[1] = "son #deme"
    /\ (op = "parseDate" /\ UnknownLocale)
         => /\ ret = parseDateFrom(args.text, DATE_PATTERNS_BY_LOCALE("en-US"),
                                   KeywordsOfDevice, 1, 1)
            /\ IsDefined(ret) => ret[1].format \in {"MM/DD/YYYY", "MM-DD-YYYY"}
    /\ (op = "parseAmount" /\ UnknownLocale)
         => /\ ret = parseAmountFrom(args.text, LocaleKeyOf(locale), "en-US",
                                     << IF IsDefined(locale)
                                        THEN getPrimaryCurrency(locale[1].countryCode)
                                        ELSE "USD" >> \o Currency, 1)
            /\ IsDefined(ret) => ret[1].currency \in {"USD", "EUR", "GBP"}

\* a date read with the en-US patterns on a fr-FR device
C20_Witness ==
  /\ pc = "returned" /\ op = "parseDate"
  /\ locale = Some([languageCode |-> "fr", countryCode |-> "FR"])
  /\ args.text = "due 03/15/2024"
  /\ ret = Some([date |-> [year |-> 2024, month |-> 3, day |-> 15],
                 raw |-> "03/15/2024", format |-> "MM/DD/YYYY"])


\* ------------------------------------------------------------------------
\* Properties of the per-type score (SpecScores)
\* ------------------------------------------------------------------------
\* how many strings of the list occur, lowered, in the text
CountIn(text, keywords) ==
  Cardinality({i \in DOMAIN keywords : Includes(text, LoweredRuleString[keywords[i]])})

\* how many patterns of the list are found in the text
CountFound(text, patterns) ==
  Cardinality({i \in DOMAIN patterns : RegExpTest(patterns[i], text, 0).found})

\* 0.4 P + 0.2 S + 0.3 R + 0.5 for a known company - 0.3 N, in hundredths
WeightedSum(text, rules) ==
  40 * CountIn(text, rules.primary) + 20 * CountIn(text, rules.secondary)
  + 30 * CountFound(text, rules.patterns)
  + (IF CountIn(text, rules.companies) > 0 THEN 50 ELSE 0)
  - 30 * CountIn(text, rules.negativeKeywords)

\* the context boost of a type's rules, 0 without a context
BoostOf(rules, context) ==
  IF IsDefined(context) THEN calculateContextBoost(rules, context[1]) ELSE 0

\* C21: for every bill type and text, the score of the type is
\* clamp(0.4 P + 0.2 S + 0.3 R + 0.5 for a known company, once, - 0.3 N
\* + context boost, 0, 1) over the normalized text, so it lies in [0,1], and
\* when a known company of a type occurs a company match is recorded with
\* confidence 0.9.
C21_ScoreIsClampedSum ==
  ClassifyReturned =>
    \E text \in {normalizeText(args.text)} :
      \A t \in DOMAIN CLASSIFICATION_RULES :
        \E sum \in {WeightedSum(text, CLASSIFICATION_RULES[t])
                    + BoostOf(CLASSIFICATION_RULES[t], args.context)} :
          /\ scores[t] = Max({0, Min({sum, One})})
          /\ scores[t] \in 0..One
          /\ CountIn(text, CLASSIFICATION_RULES[t].companies) > 0
               => ret.companyConfidence = Some(90)

\* a text whose electricity sum is above 1 and whose phone sum is below 0:
\* both are clamped
C21_Witness ==
  /\ ClassifyReturned
  /\ \E text \in {normalizeText(args.text)} :
       /\ WeightedSum(text, CLASSIFICATION_RULES[ELECTRICITY]) > One
       /\ \E t \in DOMAIN CLASSIFICATION_RULES : WeightedSum(text, CLASSIFICATION_RULES[t]) < 0
  /\ scores[ELECTRICITY] = One
  /\ \E t \in DOMAIN CLASSIFICATION_RULES : t # UNKNOWN /\ scores[t] = 0

\* the context boost of a type's rules without its amount part
BoostWithoutAmount(rules, context) ==
  IF IsDefined(context) THEN calculateContextBoost(rules, [context[1] EXCEPT !.amountHint = 0])
  ELSE 0

\* C22: with an amount hint above 100 in the context, the scores of
\* ELECTRICITY and GAS receive 0.05 more before the clamp, and the score of
\* every other type receives no amount boost.
C22_AmountBoostForUtilities ==
  (ClassifyReturned /\ IsDefined(args.context) /\ args.context[1].amountHint > 100 * 1000) =>
    \E text \in {normalizeText(args.text)} :
      \A t \in DOMAIN CLASSIFICATION_RULES :
        scores[t] = Max({0, Min({One,
                      WeightedSum(text, CLASSIFICATION_RULES[t])
                      + BoostWithoutAmount(CLASSIFICATION_RULES[t], args.context)
                      + (IF t \in {ELECTRICITY, GAS} THEN 5 ELSE 0)})})

\* ------------------------------------------------------------------------
\* The order of the currencies in parseAmountAdvanced (SpecParser)
\* ------------------------------------------------------------------------
\* the elements of a sequence
Range(seq) == {seq[i] : i \in DOMAIN seq}

\* the currencies in the order stated: the currency hint if any, the primary
\* currency of the country hint (of US without one), then the others in the
\* order they are declared with their patterns
StatedOrder(hint) ==
  LET first == IF hint.currency # "" THEN << hint.currency >> ELSE << >>
      primary == getPrimaryCurrency(IF hint.country # "" THEN hint.country ELSE "US")
      second == IF primary \in Range(first) THEN first ELSE first \o << primary >>
  IN second \o SelectSeq(globalCurrencies, LAMBDA c : c \notin Range(second))

\* what a currency yields for the text: its amount, or nothing
YieldOf(text, currency) ==
  IF IsDefined(globalPatterns(currency))
  THEN tryParseWithPatterns(text, currency, globalPatterns(currency))
  ELSE undefined

RECURSIVE FirstYield(_, _, _)
\* the amount of the first currency of order[i..] that yields one
FirstYield(text, order, i) ==
  IF i > Len(order) THEN undefined
  ELSE Only({ IF IsDefined(r) THEN r ELSE FirstYield(text, order, i + 1)
              : r \in {YieldOf(text, order[i])} })

\* C23: parseAmountAdvanced tries the currency hint first, then the primary
\* currency of the country hint, then the remaining currencies in their fixed
\* order, and returns the amount of the first currency in that order that has
\* a match above 0.
C23_HintThenPrimaryThenRest ==
  (pc = "returned" /\ op = "parseAmountAdvanced")
    => ret = FirstYield(args.text, StatedOrder(args.hint), 1)

\* ------------------------------------------------------------------------
\* Properties of parseNumericAmount (SpecNumeric)
\* ------------------------------------------------------------------------
\* the string read with its last separator as the decimal separator before
\* its last two digits, and every other period and comma dropped
LastSeparatorDecimal(s) ==
  parseFloat(Remove(SubSeq(s, 1, Len(s) - 3), {".", ","}) \o "."
             \o SubSeq(s, Len(s) - 1, Len(s)))

\* C24: with automatic detection, a numeric substring that ends in a comma
\* and exactly two digits is read with that comma as the decimal separator
\* and every period and every other comma as a thousands separator, so
\* "1.234,56" and "1,234,56" both give 1234.56.
C24_FinalCommaIsDecimal ==
  (/\ pc = "returned" /\ op = "parseNumericAmount" /\ args.locale = "auto"
   /\ EndsWithTwoDigitsAfter(args.amountStr, ","))
    => ret = LastSeparatorDecimal(args.amountStr)

\* ------------------------------------------------------------------------
\* The separators of an amount and the device's locale (SpecAmounts)
\* ------------------------------------------------------------------------
\* the string read by the convention of a country: in DE and TR the period
\* separates thousands and the comma is the decimal separator, elsewhere the
\* comma separates thousands and the period is the decimal separator
ReadByConvention(s, countryCode) ==
  IF countryCode \in {"DE", "TR"}
  THEN parseFloat(ReplaceFirstComma(Remove(s, {"."})))
  ELSE parseFloat(Remove(s, {","}))

\* C25: when the numeric substring of the amount parseAmountAdvanced returns
\* ends in neither a comma and two digits nor a period and two digits, its
\* value is the substring read by the convention of the device's locale:
\* "1.234" is 1234 in DE and TR, "1,234" is 1234 in a period-decimal locale.
C25_LocaleConventionDecides ==
  (/\ pc = "returned" /\ op = "parseAmountAdvanced" /\ IsDefined(ret) /\ IsDefined(locale)
   /\ ~EndsWithTwoDigitsAfter(ret[1].raw, ",")
   /\ ~EndsWithTwoDigitsAfter(ret[1].raw, "."))
    => ret[1].value = ReadByConvention(ret[1].raw, locale[1].countryCode)

\* ------------------------------------------------------------------------
\* The choice among several dates (SpecLocalized)
\* ------------------------------------------------------------------------
\* the matches of a pattern whose day, month and year are in range, in the
\* order of the text, each with its index and the label of the pattern
ValidatedOf(pattern) ==
  Only({ [j \in 1..Len(valid) |->
            [raw |-> valid[j].match, format |-> pattern.format, index |-> valid[j].index]]
         : valid \in {SelectSeq(MatchAll(pattern, args.text),
                                LAMBDA m : InRange(NamedDate(m.match, pattern.format)))} })

RECURSIVE ValidatedFrom(_)
\* the validated matches of the device's patterns from pattern i on
ValidatedFrom(i) ==
  IF i > Len(PatternsOfDevice) THEN << >>
  ELSE ValidatedOf(PatternsOfDevice[i]) \o ValidatedFrom(i + 1)

\* the choice as stated among the validated matches: the first with a keyword
\* in its window; without one, the only validated match; else none
StatedChoice(valid) ==
  Only({ IF near # << >> THEN Some([raw |-> near[1].raw, format |-> near[1].format])
         ELSE IF Len(valid) = 1
              THEN Some([raw |-> valid[1].raw, format |-> valid[1].format])
              ELSE undefined
         : near \in {SelectSeq(valid, LAMBDA c : KeywordInWindow(args.text, c.index))} })

\* C26: parseDate chooses among the validated matches of all the patterns of
\* the locale together: the first with a keyword in its window if there is
\* one; otherwise the validated match if there is exactly one over all the
\* patterns; with two or more and no keyword near any, no date, also when
\* they match different patterns.
C26_ChoiceOverAllPatterns ==
  DateReturned =>
    \E choice \in {StatedChoice(ValidatedFrom(1))} :
      /\ IsDefined(ret) <=> IsDefined(choice)
      /\ IsDefined(ret) => /\ ret[1].raw = choice[1].raw
                           /\ ret[1].format = choice[1].format

\* ------------------------------------------------------------------------
\* The window of a date match (SpecLocalized)
\* ------------------------------------------------------------------------
\* a keyword of the device's language occupies, letter case apart, code units
\* of the text that all lie in from..(to - 1), counted from 0
KeywordBetween(from, to) ==
  \E k \in DOMAIN KeywordsOfDevice :
    \E kw \in {toLowerCase(KeywordsOfDevice[k])}, t \in {toLowerCase(args.text)} :
      \E q \in 0..(Len(t) - Len(kw)) :
        /\ SubSeq(t, q + 1, q + Len(kw)) = kw
        /\ q >= from
        /\ q + Len(kw) <= to

\* the 100 code units centered on a match
CenteredNear(index, length) ==
  KeywordBetween(index + length \div 2 - 50, index + length \div 2 + 50)

\* from 50 code units before the start of a match to 100 after its start
StartNear(index, length) == KeywordBetween(index - 50, index + 100)

\* the matches parseDate may return when Near tells which matches are near a
\* keyword, in the order it meets them: in range, and near a keyword or alone
\* for their pattern
EligibleWith(Near(_, _)) ==
  LET of(pattern) ==
        Only({ SelectSeq(found,
                         LAMBDA m : /\ Near(m.index, Len(m.match)) \/ Len(found) = 1
                                    /\ InRange(NamedDate(m.match, pattern.format)))
               : found \in {MatchAll(pattern, args.text)} })
      from[i \in 1..(Len(PatternsOfDevice) + 1)] ==
        IF i > Len(PatternsOfDevice) THEN << >>
        ELSE [j \in 1..Len(of(PatternsOfDevice[i])) |->
                [raw |-> of(PatternsOfDevice[i])[j].match,
                 format |-> PatternsOfDevice[i].format]] \o from[i + 1]
  IN from[1]

\* the result of parseDate is the first of the eligible matches, if any
ReturnsFirstOf(eligible) ==
  /\ IsDefined(ret) <=> eligible # << >>
  /\ IsDefined(ret) => /\ ret[1].raw = eligible[1].raw
                       /\ ret[1].format = eligible[1].format

\* C27 as stated: a date match counts as near a due-date keyword exactly
\* when a keyword of the locale's language occurs, letter case apart, inside
\* the 100 characters centered on the match.
C27_CenteredWindow ==
  DateReturned => \E eligible \in {EligibleWith(CenteredNear)} : ReturnsFirstOf(eligible)

\* C27, amended: a date match counts as near a due-date keyword exactly when
\* a keyword of the locale's language occurs, letter case apart, wholly
\* between 50 characters before the start of the match (or the start of the
\* text) and 100 characters after the start of the match; a keyword that
\* is not wholly inside these 150 characters never makes the match a due date.
C27_WindowFromStart ==
  DateReturned => \E eligible \in {EligibleWith(StartNear)} : ReturnsFirstOf(eligible)

\* the keyword ends 111 characters after the start of the first of two dates
\* and 100 after the start of the second: the second date is returned
C27_Witness ==
  /\ DateReturned
  /\ locale = Some([languageCode |-> "de", countryCode |-> "DE"])
  /\ args.text = "15.03.2024 16.03.2024 " \o PadOf(83) \o "f~llig"
  /\ ~StartNear(0, 10) /\ StartNear(11, 10) /\ ~CenteredNear(11, 10)
  /\ IsDefined(ret)
  /\ ret[1].raw = "16.03.2024"

\* ------------------------------------------------------------------------
\* Properties of analyzeBatch (SpecBatch)
\* ------------------------------------------------------------------------
BatchReturned == pc = "returned" /\ op = "analyzeBatch"

\* C28: analyzeBatch returns one entry for each input image, in the order
\* of the input, entry i with imageUris[i]; an analysis that fails is recorded
\* in its entry, with success false and its error, and the images after it
\* are analyzed all the same, each with the options of the batch.
C28_OneEntryPerImage ==
  IsDefined(batch) =>
    /\ Len(batch[1].results) = batch[1].i
    /\ batch[1].i <= Len(batch[1].imageUris)
    /\ \A j \in DOMAIN batch[1].results :
         /\ batch[1].results[j].imageUri = batch[1].imageUris[j]
         /\ ~batch[1].results[j].success =>
              /\ IsDefined(batch[1].results[j].error)
              /\ ~IsDefined(batch[1].results[j].result)
         /\ batch[1].results[j].success => IsDefined(batch[1].results[j].result)
    /\ op = "analyzeBillAdvanced" =>
         /\ args.imageUri = batch[1].imageUris[batch[1].i + 1]
         /\ args.options = BatchOptions
    /\ BatchReturned =>
         /\ ret = batch[1].results
         /\ Len(ret) = Len(batch[1].imageUris)
         /\ \A j \in DOMAIN ret : ret[j].imageUri = batch[1].imageUris[j]

\* the analysis of the first of two images failed and that of the second
\* succeeded
C28_Witness ==
  /\ BatchReturned
  /\ batch[1].imageUris = << "a.jpg", "b.jpg" >>
  /\ Len(ret) = 2
  /\ ~ret[1].success /\ IsDefined(ret[1].error)
  /\ ret[2].success /\ ret[2].imageUri = "b.jpg"

\* ------------------------------------------------------------------------
\* The company of a result and its confidence (Spec)
\* ------------------------------------------------------------------------
\* C29: in every successful result of analyzeBillAdvanced the company
\* discount of the calibrated confidence agrees with the company field: the
\* factor 0.85 is applied exactly when the AnalysisResult has no company,
\* whether a company came from extractCompanyName or from the classifier.
C29_DiscountAgreesWithCompany ==
  (pc = "returned" /\ op = "analyzeBillAdvanced" /\ ret.success) =>
    ret.confidence = calibrateConfidence(ret.processing.classificationAccuracy,
                                         IsDefined(ret.result[1].amount),
                                         IsDefined(ret.result[1].dueDate),
                                         IsDefined(ret.result[1].company))

\* ------------------------------------------------------------------------
\* The company classifyBill returns (SpecScores)
\* ------------------------------------------------------------------------
\* the positions, in the order of declaration, of the types one of whose
\* known companies occurs in the normalized text
TypesWithCompany(text) ==
  {i \in DOMAIN InvoiceType : CountIn(text, CLASSIFICATION_RULES[InvoiceType[i]].companies) > 0}

\* the first company of a type's list that occurs in the normalized text
FirstCompanyOf(text, type) ==
  LET companies == CLASSIFICATION_RULES[type].companies
  IN companies[Min({i \in DOMAIN companies : Includes(text, LoweredRuleString[companies[i]])})]

\* C30: the companyName classifyBill returns, when present, is the company
\* matched by the earliest-declared type that has a known-company match in
\* the text, with companyConfidence 0.9, whichever type wins; the match of a
\* later type never replaces it; companyName is absent exactly when no type
\* has a company match.
C30_EarliestTypeKeepsCompany ==
  ClassifyReturned =>
    \E text \in {normalizeText(args.text)} :
      \E matched \in {TypesWithCompany(text)} :
        /\ IsDefined(ret.companyName) <=> matched # {}
        /\ IsDefined(ret.companyConfidence) <=> matched # {}
        /\ matched # {} =>
             /\ ret.companyName = Some(FirstCompanyOf(text, InvoiceType[Min(matched)]))
             /\ ret.companyConfidence = Some(90)

\* the text names TURKCELL and VODAFONE and is classified as phone, whose
\* first company in the text is TURKCELL: the company returned is VODAFONE,
\* the first of the earlier-declared internet
C30_Witness ==
  /\ ClassifyReturned
  /\ args.text = "TURKCELL VODAFONE"
  /\ TypesWithCompany(normalizeText(args.text)) = {4, 5}
  /\ ret.type = "phone"
  /\ FirstCompanyOf(normalizeText(args.text), "phone") = "TURKCELL"
  /\ ret.companyName = Some("VODAFONE")
  /\ ret.companyConfidence = Some(90)
====
